---------------------------- MODULE Spec2Model ----------------------------
(***************************************************************************)
(* A model of the benchmark harness of src/src/benchmark.cc:               *)
(*   - State (the object handed to a benchmark body) and the workers of    *)
(*     one repetition, synchronised by ThreadManager::StartStopBarrier;    *)
(*   - the family registry, FindBenchmarks, RunSpecifiedBenchmarks and     *)
(*     RunBenchmarks.                                                      *)
(* Spec is the specification of one repetition run by NumThreads workers;  *)
(* FairSpec adds the fairness of the workers' threads.  SpecFind registers *)
(* families and runs RunSpecifiedBenchmarks once with some filter; SpecRun *)
(* runs it over a small registry with the run flags varying.               *)
(***************************************************************************)
EXTENDS Integers, Sequences, FiniteSets, TLC

(***************************************************************************)
(* Bounds of the model.                                                    *)
(***************************************************************************)
NumThreads == 2
MaxIters == 2
MaxBarrierCalls == 3
MaxFamilies == 2
MaxRunFamilies == 2
MaxRepetitions == 2
MaxTokens == 3
MaxArgs == 2
MaxThreadCounts == 1
NumCallers == 2
\* int64_t scaled to five bits
Int64Max == 15
Int64Min == -Int64Max - 1

Workers == 1..NumThreads
Msgs == {"m1", "m2"}
NullMsg == "null"
NoMsg == "none"

VARIABLES
  max_iterations,  \* State::max_iterations, the same for every worker
  state,           \* state[t]: the State and ThreadTimer of worker t
  pc,              \* pc[t]: where worker t is
  wait_phase,      \* wait_phase[t]: Barrier phase worker t waits to end
  entered_,        \* Barrier::entered_
  phase_number_,   \* Barrier::phase_number_
  results,         \* manager_->results: has_error_, error_message_
  trueCount,       \* history: true returns of worker t's iteration check
  barrierCalls,    \* history: StartStopBarrier calls of worker t
  my_msg,          \* history: last message worker t gave SkipWithError
  families_,       \* BenchmarkFamilies::families_
  flags,           \* the command-line flags and reporters of the run
  rpc,             \* where RunSpecifiedBenchmarks is
  benchmarks,      \* the instances FindBenchmarks selected
  runners,         \* RunBenchmarks: one BenchmarkRunner per instance
  per_family_reports,  \* RunBenchmarks: family_index -> PerFamilyRunReports
  repetition_indices,  \* RunBenchmarks: the schedule of runner indices
  next_repetition,     \* RunBenchmarks: position of the loop in the schedule
  calls,           \* history: the calls made on the reporters, in order
  Out,             \* the display reporter's output stream
  Err,             \* the display reporter's error stream
  returned,        \* what RunSpecifiedBenchmarks returned (or NotReturned)
  mutex_,          \* BenchmarkFamilies::mutex_: the caller that holds it
  caller,          \* caller[c]: where registry caller c is, and its locals
  registered       \* history: the families added since the last clear

stateVars == <<max_iterations, state, pc, wait_phase, entered_, phase_number_,
               results, trueCount, barrierCalls, my_msg>>

registryVars == <<mutex_, caller, registered>>

driverVars == <<families_, flags, rpc, benchmarks, runners, per_family_reports,
                repetition_indices, next_repetition, calls, Out, Err, returned,
                registryVars>>

vars == <<stateVars, driverVars>>

(***************************************************************************)
(* State::State: the fields after construction.  check_failed names the    *)
(* function whose CHECK failed, which aborts the process, or is NoCheck.   *)
(***************************************************************************)
NoCheck == "none"

NewState ==
  [total_iterations_ |-> 0,
   started_ |-> FALSE,
   finished_ |-> FALSE,
   error_occurred_ |-> FALSE,
   running |-> FALSE,
   check_failed |-> NoCheck]

CheckFail(s, who) == [s EXCEPT !.check_failed = who]

Failed(s) == s.check_failed # NoCheck

(***************************************************************************)
(* ThreadTimer: a running flag; StopTimer requires a running timer.        *)
(***************************************************************************)
StartTimer(s) == [s EXCEPT !.running = TRUE]

StopTimer(s) ==
  IF s.running THEN [s EXCEPT !.running = FALSE] ELSE CheckFail(s, "StopTimer")

(***************************************************************************)
(* State::PauseTiming and State::ResumeTiming.                             *)
(***************************************************************************)
PauseTiming_LeavesTimerRunning(s) ==
  IF s.started_ /\ ~s.finished_ /\ ~s.error_occurred_
  THEN s
  ELSE CheckFail(s, "PauseTiming")

PauseTiming(s) ==
  IF s.started_ /\ ~s.finished_ /\ ~s.error_occurred_
  THEN StopTimer(s)
  ELSE CheckFail(s, "PauseTiming")

ResumeTiming_NoErrorCheck(s) ==
  IF s.started_ /\ ~s.finished_
  THEN StartTimer(s)
  ELSE CheckFail(s, "ResumeTiming")

ResumeTiming(s) ==
  IF s.started_ /\ ~s.finished_ /\ ~s.error_occurred_
  THEN StartTimer(s)
  ELSE CheckFail(s, "ResumeTiming")

(***************************************************************************)
(* State::SkipWithError: the part on the State and its timer, and the part *)
(* on the shared results, done under the benchmark mutex.                  *)
(***************************************************************************)
SkipWithError_KeepsCounter(s, msg) ==
  IF msg = NullMsg
  THEN CheckFail(s, "SkipWithError")
  ELSE LET s1 == [s EXCEPT !.error_occurred_ = TRUE]
       IN  IF s1.running THEN StopTimer(s1) ELSE s1

SkipWithError(s, msg) ==
  IF msg = NullMsg
  THEN CheckFail(s, "SkipWithError")
  ELSE LET s1 == [s EXCEPT !.error_occurred_ = TRUE,
                           !.total_iterations_ = 0]
       IN  IF s1.running THEN StopTimer(s1) ELSE s1

RecordError_LastWins(r, msg) ==
  [has_error_ |-> TRUE, error_message_ |-> msg]

RecordError(r, msg) ==
  IF r.has_error_ = FALSE
  THEN [has_error_ |-> TRUE, error_message_ |-> msg]
  ELSE r

(***************************************************************************)
(* State::StartKeepRunning up to its StartStopBarrier call (barrier tells  *)
(* whether the call is reached), and the rest of it after the barrier.     *)
(***************************************************************************)
StartKeepRunning_ResumesBeforeBarrier(s) ==
  IF ~s.started_ /\ ~s.finished_
  THEN LET s1 == [s EXCEPT !.started_ = TRUE,
                           !.total_iterations_ =
                              IF s.error_occurred_ THEN 0 ELSE max_iterations]
           s2 == IF ~s1.error_occurred_ THEN ResumeTiming(s1) ELSE s1
       IN  [st |-> s2, barrier |-> ~Failed(s2)]
  ELSE [st |-> CheckFail(s, "StartKeepRunning"), barrier |-> FALSE]

StartKeepRunning(s) ==
  IF ~s.started_ /\ ~s.finished_
  THEN [st |-> [s EXCEPT !.started_ = TRUE,
                         !.total_iterations_ =
                            IF s.error_occurred_ THEN 0 ELSE max_iterations],
        barrier |-> TRUE]
  ELSE [st |-> CheckFail(s, "StartKeepRunning"), barrier |-> FALSE]

StartKeepRunningAfterBarrier(s) ==
  IF ~s.error_occurred_ THEN ResumeTiming(s) ELSE s

(***************************************************************************)
(* State::FinishKeepRunning up to its StartStopBarrier call.               *)
(***************************************************************************)
FinishKeepRunning_ReturnsEarlyOnError(s) ==
  IF s.started_ /\ (~s.finished_ \/ s.error_occurred_)
  THEN LET s1 == IF ~s.error_occurred_ THEN PauseTiming(s) ELSE s
       IN  IF Failed(s1)
           THEN [st |-> s1, barrier |-> FALSE]
           ELSE [st |-> [s1 EXCEPT !.total_iterations_ = 0,
                                   !.finished_ = TRUE],
                 barrier |-> ~s.error_occurred_]
  ELSE [st |-> CheckFail(s, "FinishKeepRunning"), barrier |-> FALSE]

FinishKeepRunning(s) ==
  IF s.started_ /\ (~s.finished_ \/ s.error_occurred_)
  THEN LET s1 == IF ~s.error_occurred_ THEN PauseTiming(s) ELSE s
       IN  IF Failed(s1)
           THEN [st |-> s1, barrier |-> FALSE]
           ELSE [st |-> [s1 EXCEPT !.total_iterations_ = 0,
                                   !.finished_ = TRUE],
                 barrier |-> TRUE]
  ELSE [st |-> CheckFail(s, "FinishKeepRunning"), barrier |-> FALSE]

(***************************************************************************)
(* Barrier::wait as called by ThreadManager::StartStopBarrier: the caller  *)
(* enters; the last of the NumThreads callers ends the phase, which        *)
(* releases every waiter of that phase.                                    *)
(***************************************************************************)
StartStopBarrier(t, where) ==
  /\ barrierCalls[t] < MaxBarrierCalls
  /\ pc' = [pc EXCEPT ![t] = where]
  /\ wait_phase' = [wait_phase EXCEPT ![t] = phase_number_]
  /\ barrierCalls' = [barrierCalls EXCEPT ![t] = @ + 1]
  /\ IF entered_ + 1 < NumThreads
     THEN entered_' = entered_ + 1 /\ phase_number_' = phase_number_
     ELSE entered_' = 0 /\ phase_number_' = phase_number_ + 1

Released(t) == phase_number_ > wait_phase[t]

Aborted == \E t \in Workers : Failed(state[t])

NoBarrier == UNCHANGED <<wait_phase, entered_, phase_number_, barrierCalls>>

(***************************************************************************)
(* The iteration check, State::KeepRunning: it counts total_iterations_    *)
(* down, calls StartKeepRunning before the first iteration and             *)
(* FinishKeepRunning when the counter is 0.  A call that reaches a barrier *)
(* goes on in LeaveStartBarrier or LeaveStopBarrier.                       *)
(***************************************************************************)
CallKeepRunning(t) ==
  /\ ~Aborted
  /\ UNCHANGED driverVars
  /\ pc[t] = "body"
  /\ UNCHANGED <<max_iterations, results, my_msg>>
  /\ IF state[t].total_iterations_ >= 1
     THEN /\ state' = [state EXCEPT ![t].total_iterations_ = @ - 1]
          /\ trueCount' = [trueCount EXCEPT ![t] = @ + 1]
          /\ NoBarrier
          /\ UNCHANGED pc
     ELSE LET r == IF ~state[t].started_
                   THEN StartKeepRunning(state[t])
                   ELSE FinishKeepRunning(state[t])
              where == IF ~state[t].started_ THEN "start_wait" ELSE "stop_wait"
          IN  /\ state' = [state EXCEPT ![t] = r.st]
              /\ UNCHANGED trueCount
              /\ IF r.barrier
                 THEN StartStopBarrier(t, where)
                 ELSE NoBarrier /\ UNCHANGED pc

\* StartKeepRunning returns from the barrier; KeepRunning then takes the
\* first iteration, or finishes at once when the State is errored.
LeaveStartBarrier(t) ==
  /\ ~Aborted
  /\ UNCHANGED driverVars
  /\ pc[t] = "start_wait"
  /\ Released(t)
  /\ UNCHANGED <<max_iterations, results, my_msg>>
  /\ LET s1 == StartKeepRunningAfterBarrier(state[t])
     IN  IF Failed(s1)
         THEN /\ state' = [state EXCEPT ![t] = s1]
              /\ pc' = [pc EXCEPT ![t] = "body"]
              /\ UNCHANGED trueCount
              /\ NoBarrier
         ELSE IF ~s1.error_occurred_ /\ s1.total_iterations_ >= 1
         THEN /\ state' = [state EXCEPT ![t] =
                             [s1 EXCEPT !.total_iterations_ = @ - 1]]
              /\ trueCount' = [trueCount EXCEPT ![t] = @ + 1]
              /\ pc' = [pc EXCEPT ![t] = "body"]
              /\ NoBarrier
         ELSE LET r == FinishKeepRunning(s1)
              IN  /\ state' = [state EXCEPT ![t] = r.st]
                  /\ UNCHANGED trueCount
                  /\ IF r.barrier
                     THEN StartStopBarrier(t, "stop_wait")
                     ELSE NoBarrier /\ pc' = [pc EXCEPT ![t] = "body"]

\* FinishKeepRunning returns from the barrier; KeepRunning returns false.
LeaveStopBarrier(t) ==
  /\ ~Aborted
  /\ UNCHANGED driverVars
  /\ pc[t] = "stop_wait"
  /\ Released(t)
  /\ pc' = [pc EXCEPT ![t] = "body"]
  /\ UNCHANGED <<max_iterations, state, wait_phase, entered_, phase_number_,
                 results, trueCount, barrierCalls, my_msg>>

(***************************************************************************)
(* What a benchmark body may call between iteration checks.                *)
(***************************************************************************)
CallPauseTiming(t) ==
  /\ ~Aborted
  /\ UNCHANGED driverVars
  /\ pc[t] = "body"
  /\ state' = [state EXCEPT ![t] = PauseTiming(state[t])]
  /\ NoBarrier /\ UNCHANGED pc
  /\ UNCHANGED <<max_iterations, results, trueCount, my_msg>>

CallResumeTiming(t) ==
  /\ ~Aborted
  /\ UNCHANGED driverVars
  /\ pc[t] = "body"
  /\ state' = [state EXCEPT ![t] = ResumeTiming(state[t])]
  /\ NoBarrier /\ UNCHANGED pc
  /\ UNCHANGED <<max_iterations, results, trueCount, my_msg>>

CallSkipWithError(t, msg) ==
  /\ ~Aborted
  /\ UNCHANGED driverVars
  /\ pc[t] = "body"
  /\ state' = [state EXCEPT ![t] = SkipWithError(state[t], msg)]
  /\ IF msg = NullMsg
     THEN UNCHANGED <<results, my_msg>>
     ELSE /\ results' = RecordError(results, msg)
          /\ my_msg' = [my_msg EXCEPT ![t] = msg]
  /\ NoBarrier /\ UNCHANGED pc
  /\ UNCHANGED <<max_iterations, trueCount>>

\* The body returns once its iteration check has returned false.
BodyReturn(t) ==
  /\ ~Aborted
  /\ UNCHANGED driverVars
  /\ pc[t] = "body"
  /\ state[t].finished_
  /\ pc' = [pc EXCEPT ![t] = "returned"]
  /\ UNCHANGED <<max_iterations, state, wait_phase, entered_, phase_number_,
                 results, trueCount, barrierCalls, my_msg>>

(***************************************************************************)
(*                  The family registry and FindBenchmarks                 *)
(***************************************************************************)

\* Names and filters are sequences of characters.
Digit(d) ==
  CASE d = 0 -> "0" [] d = 1 -> "1" [] d = 2 -> "2" [] d = 3 -> "3"
    [] d = 4 -> "4" [] d = 5 -> "5" [] d = 6 -> "6" [] d = 7 -> "7"
    [] d = 8 -> "8" [] d = 9 -> "9"

RECURSIVE Decimal(_)
Decimal(n) ==
  IF n < 0 THEN <<"-">> \o Decimal(-n)
  ELSE IF n < 10 THEN <<Digit(n)>>
  ELSE Decimal(n \div 10) \o <<Digit(n % 10)>>

ThreadsPrefix == <<"t", "h", "r", "e", "a", "d", "s", ":">>

\* complexity_ of a family
oNone == "oNone"
oN == "oN"

kMaxFamilySize == 100
kRangeMultiplier == 8

\* Seconds are counted in ticks of half of
\* std::numeric_limits<double>::epsilon().
Epsilon == 2

IsZero(n) == (IF n < 0 THEN 0 - n ELSE n) < Epsilon

(***************************************************************************)
(* Benchmark::Benchmark and the builder calls.  A failed CHECK aborts the  *)
(* process: the family record then carries check_failed.                   *)
(***************************************************************************)
Benchmark(name) ==
  [name_ |-> name,
   args_ |-> <<>>,
   arg_names_ |-> <<>>,
   thread_counts_ |-> <<>>,
   range_multiplier_ |-> kRangeMultiplier,
   min_time_ |-> 0,
   iterations_ |-> 0,
   repetitions_ |-> 0,
   complexity_ |-> oNone,
   statistics_ |-> <<"mean", "median", "stddev">>,
   check_failed |-> FALSE]

ArgsCnt_EmptyTupleIsUnset(f) ==
  IF f.args_ = <<>>
  THEN IF f.arg_names_ = <<>> THEN -1 ELSE Len(f.arg_names_)
  ELSE IF f.args_[1] = <<>> THEN -1 ELSE Len(f.args_[1])

ArgsCnt(f) ==
  IF f.args_ = <<>>
  THEN IF f.arg_names_ = <<>> THEN -1 ELSE Len(f.arg_names_)
  ELSE Len(f.args_[1])

Arg(f, x) ==
  IF ArgsCnt(f) = -1 \/ ArgsCnt(f) = 1
  THEN [f EXCEPT !.args_ = Append(@, <<x>>)]
  ELSE [f EXCEPT !.check_failed = TRUE]

Args(f, args) ==
  IF ArgsCnt(f) = -1 \/ ArgsCnt(f) = Len(args)
  THEN [f EXCEPT !.args_ = Append(@, args)]
  ELSE [f EXCEPT !.check_failed = TRUE]

Threads(f, t) ==
  IF t > 0
  THEN [f EXCEPT !.thread_counts_ = Append(@, t)]
  ELSE [f EXCEPT !.check_failed = TRUE]

Repetitions(f, n) ==
  IF n > 0
  THEN [f EXCEPT !.repetitions_ = n]
  ELSE [f EXCEPT !.check_failed = TRUE]

Complexity(f, c) == [f EXCEPT !.complexity_ = c]

(***************************************************************************)
(* AddRange(dst, lo, hi, mult), for 0 <= lo <= hi: lo, then the powers of  *)
(* mult between lo and hi, then hi.                                        *)
(***************************************************************************)
RECURSIVE AddPowers(_, _, _, _)
AddPowers(i, lo, hi, mult) ==
  IF i > hi
  THEN <<>>
  ELSE (IF i >= lo THEN <<i>> ELSE <<>>) \o AddPowers(i * mult, lo, hi, mult)

AddRange(dst, lo, hi, mult) ==
  dst \o <<lo>>
      \o (IF lo = hi
          THEN <<>>
          ELSE AddPowers(1, lo + 1, hi - 1, mult) \o <<hi>>)

CreateRange(lo, hi, multi) == AddRange(<<>>, lo, hi, multi)

\* args_.push_back({i}) for every i of arglist
PushEach(args_, arglist) ==
  args_ \o [n \in 1..Len(arglist) |-> <<arglist[n]>>]

Range_IgnoresRangeMultiplier(f, start, limit) ==
  IF ArgsCnt(f) = -1 \/ ArgsCnt(f) = 1
  THEN [f EXCEPT !.args_ =
          PushEach(@, AddRange(<<>>, start, limit, kRangeMultiplier))]
  ELSE [f EXCEPT !.check_failed = TRUE]

Range(f, start, limit) ==
  IF ArgsCnt(f) = -1 \/ ArgsCnt(f) = 1
  THEN [f EXCEPT !.args_ =
          PushEach(@, AddRange(<<>>, start, limit, f.range_multiplier_))]
  ELSE [f EXCEPT !.check_failed = TRUE]

(***************************************************************************)
(* Benchmark::ArgsProduct.  indices is the odometer over the lists; after  *)
(* each tuple it is advanced from position 0 (here 1), carrying into the   *)
(* next position when one wraps to 0.  With no list at all the do-while    *)
(* reads indices[0] and arglists[0] of empty vectors: ProductOutcomes.     *)
(***************************************************************************)
RECURSIVE Total(_)
Total(arglists) ==
  IF arglists = <<>> THEN 1 ELSE Len(Head(arglists)) * Total(Tail(arglists))

RECURSIVE AdvanceIndices_FromLastPosition(_, _, _)
AdvanceIndices_FromLastPosition(arglists, indices, arg) ==
  LET pos == Len(arglists) + 1 - arg
      v == (indices[pos] + 1) % Len(arglists[pos])
      indices1 == [indices EXCEPT ![pos] = v]
  IN  IF v = 0 /\ arg < Len(arglists)
      THEN AdvanceIndices_FromLastPosition(arglists, indices1, arg + 1)
      ELSE indices1

RECURSIVE AdvanceIndices(_, _, _)
AdvanceIndices(arglists, indices, arg) ==
  LET v == (indices[arg] + 1) % Len(arglists[arg])
      indices1 == [indices EXCEPT ![arg] = v]
  IN  IF v = 0 /\ arg < Len(arglists)
      THEN AdvanceIndices(arglists, indices1, arg + 1)
      ELSE indices1

RECURSIVE ProductLoop(_, _, _, _)
ProductLoop(arglists, indices, i, args_) ==
  IF i >= Total(arglists)
  THEN args_
  ELSE ProductLoop(arglists, AdvanceIndices(arglists, indices, 1), i + 1,
         Append(args_, [arg \in 1..Len(arglists) |->
                          arglists[arg][indices[arg] + 1]]))

ArgsProduct(f, arglists) ==
  IF ArgsCnt(f) = -1 \/ ArgsCnt(f) = Len(arglists)
  THEN [f EXCEPT !.args_ =
          ProductLoop(arglists, [arg \in 1..Len(arglists) |-> 0], 0, @)]
  ELSE [f EXCEPT !.check_failed = TRUE]

Ranges(f, ranges) ==
  IF ArgsCnt(f) = -1 \/ ArgsCnt(f) = Len(ranges)
  THEN ArgsProduct(f, [i \in 1..Len(ranges) |->
                         AddRange(<<>>, ranges[i][1], ranges[i][2],
                                  f.range_multiplier_)])
  ELSE [f EXCEPT !.check_failed = TRUE]

ArgName(f, name) ==
  IF ArgsCnt(f) = -1 \/ ArgsCnt(f) = 1
  THEN [f EXCEPT !.arg_names_ = <<name>>]
  ELSE [f EXCEPT !.check_failed = TRUE]

ArgNames_SkipsArityCheck(f, names) == [f EXCEPT !.arg_names_ = names]

ArgNames(f, names) ==
  IF ArgsCnt(f) = -1 \/ ArgsCnt(f) = Len(names)
  THEN [f EXCEPT !.arg_names_ = names]
  ELSE [f EXCEPT !.check_failed = TRUE]

(***************************************************************************)
(* The loop of DenseRange and CreateDenseRange,                            *)
(*   for (int64_t arg = start; arg <= limit; arg += step) push(arg);       *)
(* with int64_t scaled to Int64Min..Int64Max.  It returns the values it    *)
(* pushed, or never ends (step 0 leaves arg where it is), or reaches an    *)
(* arg += step that overflows, where args holds the values pushed so far.  *)
(***************************************************************************)
RECURSIVE DenseLoop_ExcludesLimit(_, _, _)
DenseLoop_ExcludesLimit(arg, limit, step) ==
  IF arg >= limit
  THEN [args |-> <<>>, ends |-> "returns"]
  ELSE IF step = 0
  THEN [args |-> <<arg>>, ends |-> "never"]
  ELSE IF arg + step > Int64Max \/ arg + step < Int64Min
  THEN [args |-> <<arg>>, ends |-> "overflow"]
  ELSE LET rest == DenseLoop_ExcludesLimit(arg + step, limit, step)
       IN  [args |-> <<arg>> \o rest.args, ends |-> rest.ends]

RECURSIVE DenseLoop(_, _, _)
DenseLoop(arg, limit, step) ==
  IF arg > limit
  THEN [args |-> <<>>, ends |-> "returns"]
  ELSE IF step = 0
  THEN [args |-> <<arg>>, ends |-> "never"]
  ELSE IF arg + step > Int64Max \/ arg + step < Int64Min
  THEN [args |-> <<arg>>, ends |-> "overflow"]
  ELSE LET rest == DenseLoop(arg + step, limit, step)
       IN  [args |-> <<arg>> \o rest.args, ends |-> rest.ends]

\* The family after a DenseRange call that returns; DenseRangeEnds tells
\* whether the call does.
DenseRange(f, start, limit, step) ==
  IF (ArgsCnt(f) = -1 \/ ArgsCnt(f) = 1) /\ start <= limit
  THEN [f EXCEPT !.args_ = PushEach(@, DenseLoop(start, limit, step).args)]
  ELSE [f EXCEPT !.check_failed = TRUE]

DenseRangeEnds(f, start, limit, step) ==
  IF (ArgsCnt(f) = -1 \/ ArgsCnt(f) = 1) /\ start <= limit
  THEN DenseLoop(start, limit, step).ends
  ELSE "returns"

\* CreateDenseRange(start, limit, step): the vector it returns, or how it
\* fails to return one.
CreateDenseRange(start, limit, step) ==
  IF start <= limit
  THEN DenseLoop(start, limit, step)
  ELSE [args |-> <<>>, ends |-> "check_failed"]

RangeMultiplier(f, multiplier) ==
  IF multiplier > 1
  THEN [f EXCEPT !.range_multiplier_ = multiplier]
  ELSE [f EXCEPT !.check_failed = TRUE]

MinTime(f, t) ==
  IF t > 0 /\ f.iterations_ = 0
  THEN [f EXCEPT !.min_time_ = t]
  ELSE [f EXCEPT !.check_failed = TRUE]

Iterations(f, n) ==
  IF n > 0 /\ IsZero(f.min_time_)
  THEN [f EXCEPT !.iterations_ = n]
  ELSE [f EXCEPT !.check_failed = TRUE]

\* One builder call, as written after BENCHMARK(...)->
BuilderCall(f, c) ==
  CASE c.op = "Arg" -> Arg(f, c.x)
    [] c.op = "Args" -> Args(f, c.x)
    [] c.op = "Threads" -> Threads(f, c.x)
    [] c.op = "Repetitions" -> Repetitions(f, c.x)
    [] c.op = "Complexity" -> Complexity(f, c.big_o)
    [] c.op = "Range" -> Range(f, c.x, c.y)
    [] c.op = "Ranges" -> Ranges(f, c.x)
    [] c.op = "ArgsProduct" -> ArgsProduct(f, c.x)
    [] c.op = "ArgName" -> ArgName(f, c.x)
    [] c.op = "ArgNames" -> ArgNames(f, c.x)
    [] c.op = "DenseRange" -> DenseRange(f, c.x, c.y, c.z)
    [] c.op = "RangeMultiplier" -> RangeMultiplier(f, c.x)
    [] c.op = "MinTime" -> MinTime(f, c.x)
    [] c.op = "Iterations" -> Iterations(f, c.x)

RECURSIVE BuilderChain(_, _)
BuilderChain(f, chain) ==
  IF chain = <<>> \/ f.check_failed
  THEN f
  ELSE BuilderChain(BuilderCall(f, Head(chain)), Tail(chain))

(***************************************************************************)
(* The name of an instance: name[/arg_name=arg ...][/threads:T], the       *)
(* threads part only for a family that registered thread counts.           *)
(***************************************************************************)
RECURSIVE ArgsName(_, _, _)
ArgsName(f, args, i) ==
  IF i > Len(args)
  THEN <<>>
  ELSE <<"/">>
       \o (IF i <= Len(f.arg_names_) /\ f.arg_names_[i] # <<>>
           THEN f.arg_names_[i] \o <<"=">>
           ELSE <<>>)
       \o Decimal(args[i])
       \o ArgsName(f, args, i + 1)

InstanceName(f, args, num_threads) ==
  f.name_
  \o ArgsName(f, args, 1)
  \o (IF f.thread_counts_ # <<>>
      THEN <<"/">> \o ThreadsPrefix \o Decimal(num_threads)
      ELSE <<>>)

BenchmarkInstance(fam, f, family_index, per_family_instance_index, args, num_threads) ==
  [family |-> fam,
   family_index |-> family_index,
   per_family_instance_index |-> per_family_instance_index,
   args |-> args,
   threads |-> num_threads,
   name |-> InstanceName(f, args, num_threads)]

(***************************************************************************)
(* Regex: Init compiles a pattern and fails on an unbalanced parenthesis;  *)
(* Match searches the name for the pattern, "." matching any character.    *)
(***************************************************************************)
RegexInit(re) == \A i \in 1..Len(re) : re[i] \notin {"(", ")"}

Match(re, name) ==
  \E i \in 0..(Len(name) - Len(re)) :
    \A j \in 1..Len(re) : re[j] = "." \/ re[j] = name[i + j]

(***************************************************************************)
(* BenchmarkFamilies::AddBenchmark and ClearBenchmarks.                    *)
(***************************************************************************)
AddBenchmark(fams, family) ==
  [index |-> Len(fams), families |-> Append(fams, family)]

ClearBenchmarks(fams) == <<>>

(***************************************************************************)
(* BenchmarkFamilies::FindBenchmarks.  acc carries benchmarks (the output  *)
(* vector), next_family_index and Err through the loop over families_;     *)
(* ExpandFamily is the double loop over args_ and the thread counts, which *)
(* k counts through, the thread count varying fastest.                     *)
(***************************************************************************)
Selected_IgnoresNegation(re, isNegativeFilter, full_name) ==
  Match(re, full_name)

Selected(re, isNegativeFilter, full_name) ==
  \/ Match(re, full_name) /\ ~isNegativeFilter
  \/ ~Match(re, full_name) /\ isNegativeFilter

NextFamilyIndex_BumpsPerInstance(next_family_index, family_index) ==
  next_family_index + 1

NextFamilyIndex(next_family_index, family_index) ==
  IF next_family_index = family_index
  THEN next_family_index + 1
  ELSE next_family_index

RECURSIVE ExpandFamily_ThreadsOuter(_, _, _, _, _, _, _, _)
ExpandFamily_ThreadsOuter(fam, f, thread_counts, re, isNegativeFilter, family_index, k, acc) ==
  IF k >= Len(f.args_) * Len(thread_counts)
  THEN acc
  ELSE LET args == f.args_[(k % Len(f.args_)) + 1]
           num_threads == thread_counts[(k \div Len(f.args_)) + 1]
           instance == BenchmarkInstance(fam, f, family_index,
                                         acc.per_family_instance_index,
                                         args, num_threads)
           acc1 ==
             IF Selected(re, isNegativeFilter, instance.name)
             THEN [acc EXCEPT
                     !.benchmarks = Append(@, instance),
                     !.per_family_instance_index = @ + 1,
                     !.next_family_index =
                        NextFamilyIndex(@, family_index)]
             ELSE acc
       IN  ExpandFamily_ThreadsOuter(fam, f, thread_counts, re,
                                     isNegativeFilter, family_index, k + 1,
                                     acc1)

RECURSIVE ExpandFamily(_, _, _, _, _, _, _, _)
ExpandFamily(fam, f, thread_counts, re, isNegativeFilter, family_index, k, acc) ==
  IF k >= Len(f.args_) * Len(thread_counts)
  THEN acc
  ELSE LET args == f.args_[(k \div Len(thread_counts)) + 1]
           num_threads == thread_counts[(k % Len(thread_counts)) + 1]
           instance == BenchmarkInstance(fam, f, family_index,
                                         acc.per_family_instance_index,
                                         args, num_threads)
           acc1 ==
             IF Selected(re, isNegativeFilter, instance.name)
             THEN [acc EXCEPT
                     !.benchmarks = Append(@, instance),
                     !.per_family_instance_index = @ + 1,
                     !.next_family_index =
                        NextFamilyIndex(@, family_index)]
             ELSE acc
       IN  ExpandFamily(fam, f, thread_counts, re, isNegativeFilter,
                        family_index, k + 1, acc1)

\* One turn of the loop over families_: the family at position fam.
FindFamily(re, isNegativeFilter, fam, acc) ==
  LET f0 == acc.families[fam]
      f == IF ArgsCnt(f0) = -1 THEN Args(f0, <<>>) ELSE f0
      thread_counts ==
        IF f.thread_counts_ = <<>> THEN <<1>> ELSE f.thread_counts_
      family_size == Len(f.args_) * Len(thread_counts)
      acc1 == [acc EXCEPT
                 !.families[fam] = f,
                 !.per_family_instance_index = 0,
                 !.Err = IF family_size > kMaxFamilySize
                         THEN Append(@, "The number of inputs is very large")
                         ELSE @]
  IN  ExpandFamily(fam, f, thread_counts, re, isNegativeFilter,
                   acc1.next_family_index, 0, acc1)

RECURSIVE FindInFamilies(_, _, _, _)
FindInFamilies(re, isNegativeFilter, fam, acc) ==
  IF fam > Len(acc.families)
  THEN acc
  ELSE FindInFamilies(re, isNegativeFilter, fam + 1,
                      FindFamily(re, isNegativeFilter, fam, acc))

FindBenchmarks(spec, fams, out_benchmarks, err) ==
  LET isNegativeFilter == spec # <<>> /\ spec[1] = "-"
      re == IF isNegativeFilter THEN Tail(spec) ELSE spec
  IN  IF ~RegexInit(re)
      THEN [ok |-> FALSE, benchmarks |-> out_benchmarks, families |-> fams,
            Err |-> Append(err, "Could not compile benchmark re")]
      ELSE LET acc == FindInFamilies(re, isNegativeFilter, 1,
                        [benchmarks |-> out_benchmarks,
                         families |-> fams,
                         next_family_index |-> 0,
                         per_family_instance_index |-> 0,
                         Err |-> err])
           IN  [ok |-> TRUE, benchmarks |-> acc.benchmarks,
                families |-> acc.families, Err |-> acc.Err]


(***************************************************************************)
(* The registry under concurrent callers.  Each of AddBenchmark,           *)
(* ClearBenchmarks and FindBenchmarks constructs a MutexLock on mutex_,    *)
(* which waits until no caller holds it, and releases it on return.        *)
(* AddBenchmark reads families_.size() and pushes in two steps,            *)
(* FindBenchmarks takes one family per step.  registered is the history of *)
(* the adds since the last clear, in the order the calls took the mutex.   *)
(***************************************************************************)
Callers == 1..NumCallers
NoOwner == 0

EmptyAcc ==
  [benchmarks |-> <<>>, families |-> <<>>, next_family_index |-> 0,
   per_family_instance_index |-> 0, Err |-> <<>>]

IdleCaller ==
  [pc |-> "idle", family |-> Benchmark(<<>>), index |-> 0, ticket |-> 0,
   spec |-> <<>>, fam |-> 1, acc |-> EmptyAcc, seen |-> <<>>]

RegistryIdle ==
  /\ mutex_ = NoOwner
  /\ caller = [c \in Callers |-> IdleCaller]
  /\ registered = <<>>

RegistryFrame ==
  /\ UNCHANGED stateVars
  /\ UNCHANGED <<flags, rpc, benchmarks, runners, per_family_reports,
                 repetition_indices, next_repetition, calls, Out, Err,
                 returned>>

\* ~MutexLock: the caller gives up the mutex it holds.
Unlock(c) == IF mutex_ = c THEN NoOwner ELSE mutex_

AddBenchmarkLock_NoMutex(c, family) ==
  /\ caller[c].pc = "idle"
  /\ Len(registered) < MaxFamilies
  /\ caller' = [caller EXCEPT ![c] = [@ EXCEPT !.pc = "add_size",
                                              !.family = family,
                                              !.ticket = Len(registered)]]
  /\ registered' = Append(registered, family)
  /\ UNCHANGED <<mutex_, families_>>
  /\ RegistryFrame

AddBenchmarkLock(c, family) ==
  /\ caller[c].pc = "idle"
  /\ mutex_ = NoOwner
  /\ Len(registered) < MaxFamilies
  /\ mutex_' = c
  /\ caller' = [caller EXCEPT ![c] = [@ EXCEPT !.pc = "add_size",
                                              !.family = family,
                                              !.ticket = Len(registered)]]
  /\ registered' = Append(registered, family)
  /\ UNCHANGED families_
  /\ RegistryFrame

AddBenchmarkSize(c) ==
  /\ caller[c].pc = "add_size"
  /\ caller' = [caller EXCEPT ![c] =
                  [@ EXCEPT !.pc = "add_push",
                            !.index =
                               AddBenchmark(families_,
                                            caller[c].family).index]]
  /\ UNCHANGED <<mutex_, families_, registered>>
  /\ RegistryFrame

AddBenchmarkPush(c) ==
  /\ caller[c].pc = "add_push"
  /\ families_' = AddBenchmark(families_, caller[c].family).families
  /\ caller' = [caller EXCEPT ![c] = [@ EXCEPT !.pc = "add_return"]]
  /\ UNCHANGED <<mutex_, registered>>
  /\ RegistryFrame

AddBenchmarkReturn(c) ==
  /\ caller[c].pc = "add_return"
  /\ mutex_' = Unlock(c)
  /\ caller' = [caller EXCEPT ![c] = IdleCaller]
  /\ UNCHANGED <<families_, registered>>
  /\ RegistryFrame

ClearBenchmarksLock(c) ==
  /\ caller[c].pc = "idle"
  /\ mutex_ = NoOwner
  /\ mutex_' = c
  /\ caller' = [caller EXCEPT ![c] = [@ EXCEPT !.pc = "clear"]]
  /\ registered' = <<>>
  /\ UNCHANGED families_
  /\ RegistryFrame

ClearBenchmarksReturn(c) ==
  /\ caller[c].pc = "clear"
  /\ families_' = ClearBenchmarks(families_)
  /\ mutex_' = Unlock(c)
  /\ caller' = [caller EXCEPT ![c] = IdleCaller]
  /\ UNCHANGED registered
  /\ RegistryFrame

\* The filter compiles; next_family_index is 0 when the mutex is taken.
FindBenchmarksLock(c, spec) ==
  /\ caller[c].pc = "idle"
  /\ RegexInit(IF spec[1] = "-" THEN Tail(spec) ELSE spec)
  /\ mutex_ = NoOwner
  /\ mutex_' = c
  /\ caller' = [caller EXCEPT ![c] = [@ EXCEPT !.pc = "find",
                                              !.spec = spec,
                                              !.fam = 1,
                                              !.acc = EmptyAcc,
                                              !.seen = families_]]
  /\ UNCHANGED <<families_, registered>>
  /\ RegistryFrame

FindBenchmarksFamily(c) ==
  /\ caller[c].pc = "find"
  /\ caller[c].fam <= Len(families_)
  /\ LET spec == caller[c].spec
         isNegativeFilter == spec[1] = "-"
         re == IF isNegativeFilter THEN Tail(spec) ELSE spec
         acc == FindFamily(re, isNegativeFilter, caller[c].fam,
                           [caller[c].acc EXCEPT !.families = families_])
     IN  /\ families_' = acc.families
         /\ caller' = [caller EXCEPT ![c] =
                         [@ EXCEPT !.fam = @ + 1,
                                   !.acc = [acc EXCEPT !.families = <<>>]]]
  /\ UNCHANGED <<mutex_, registered>>
  /\ RegistryFrame

FindBenchmarksReturn(c) ==
  /\ caller[c].pc = "find"
  /\ caller[c].fam > Len(families_)
  /\ mutex_' = Unlock(c)
  /\ caller' = [caller EXCEPT ![c] = IdleCaller]
  /\ UNCHANGED <<families_, registered>>
  /\ RegistryFrame


(***************************************************************************)
(*            BenchmarkRunner, Report and RunBenchmarks                    *)
(***************************************************************************)
None == -1
NotReturned == [exited |-> FALSE, value |-> None]

\* GetNumRepeats: the family's repetitions, or else the flag.
GetNumRepeats(b, fl) ==
  IF families_[b.family].repetitions_ # 0
  THEN families_[b.family].repetitions_
  ELSE fl.benchmark_repetitions

BenchmarkRunner(b, reports_for_family, fl) ==
  [repeats |-> GetNumRepeats(b, fl),
   num_repetitions_done |-> 0,
   has_error |-> FALSE,
   non_aggregates |-> <<>>,
   reports_for_family |-> reports_for_family,
   statistics |-> families_[b.family].statistics_,
   display_report_aggregates_only |->
      fl.benchmark_report_aggregates_only
        \/ fl.benchmark_display_aggregates_only,
   file_report_aggregates_only |-> fl.benchmark_report_aggregates_only]

HasRepeatsRemaining(r) == r.repeats # r.num_repetitions_done

DoOneRepetition_RunsAfterError(r, b, err) ==
  [r EXCEPT
     !.num_repetitions_done = @ + 1,
     !.has_error = @ \/ err,
     !.non_aggregates =
        Append(@, [family_index |-> b.family_index,
                   per_family_instance_index |-> b.per_family_instance_index,
                   repetition_index |-> r.num_repetitions_done,
                   error_occurred |-> err])]

\* One repetition; err tells whether the body called SkipWithError.  A
\* Runner that has errored skips the repetitions it has left.
DoOneRepetition(r, b, err) ==
  IF r.has_error
  THEN [r EXCEPT !.num_repetitions_done = @ + 1]
  ELSE [r EXCEPT
          !.num_repetitions_done = @ + 1,
          !.has_error = err,
          !.non_aggregates =
             Append(@, [family_index |-> b.family_index,
                        per_family_instance_index |->
                           b.per_family_instance_index,
                        repetition_index |-> r.num_repetitions_done,
                        error_occurred |-> err])]

\* The collector of a family with a complexity: the Runner contributes the
\* Run of the repetition, if the repetition made one.
RecordRun(rf, r, r1) ==
  [rf EXCEPT
     !.num_runs_done = @ + 1,
     !.Runs = IF Len(r1.non_aggregates) > Len(r.non_aggregates)
              THEN Append(@, r1.non_aggregates[Len(r1.non_aggregates)])
              ELSE @]

\* ComputeStats: one aggregate per statistic descriptor across the
\* per-repetition Runs; a single Run has no aggregates.
ComputeStats(r) ==
  IF Len(r.non_aggregates) < 2
  THEN <<>>
  ELSE r.statistics

ComputeBigO(Runs) == <<"BigO", "RMS">>

GetResults(r) ==
  [non_aggregates |-> r.non_aggregates,
   aggregates_only |-> ComputeStats(r),
   display_report_aggregates_only |-> r.display_report_aggregates_only,
   file_report_aggregates_only |-> r.file_report_aggregates_only]

(***************************************************************************)
(* Report: the ReportRuns calls one RunResults makes on the reporters.     *)
(***************************************************************************)
ReportRunsCall(reporter, runner, what, runs) ==
  [reporter |-> reporter, op |-> "ReportRuns", runner |-> runner,
   what |-> what, size |-> Len(runs)]

report_one_DropsRunsWhenAggregatesOnly(reporter, aggregates_only_flag, run_results, runner) ==
  (IF ~aggregates_only_flag
   THEN <<ReportRunsCall(reporter, runner, "non_aggregates",
                         run_results.non_aggregates)>>
   ELSE <<>>)
  \o (IF run_results.aggregates_only # <<>>
      THEN <<ReportRunsCall(reporter, runner, "aggregates_only",
                            run_results.aggregates_only)>>
      ELSE <<>>)

report_one(reporter, aggregates_only_flag, run_results, runner) ==
  LET aggregates_only ==
        aggregates_only_flag /\ run_results.aggregates_only # <<>>
  IN  (IF ~aggregates_only
       THEN <<ReportRunsCall(reporter, runner, "non_aggregates",
                             run_results.non_aggregates)>>
       ELSE <<>>)
      \o (IF run_results.aggregates_only # <<>>
          THEN <<ReportRunsCall(reporter, runner, "aggregates_only",
                                run_results.aggregates_only)>>
          ELSE <<>>)

Report(has_file_reporter, run_results, runner) ==
  report_one("display", run_results.display_report_aggregates_only,
             run_results, runner)
  \o (IF has_file_reporter
      THEN report_one("file", run_results.file_report_aggregates_only,
                      run_results, runner)
      ELSE <<>>)

ReporterCall(reporter, op) ==
  [reporter |-> reporter, op |-> op, runner |-> 0, what |-> "", size |-> 0]

(***************************************************************************)
(* RunBenchmarks, after ReportContext: the runners and the collectors of   *)
(* the families with a complexity, then the schedule.                      *)
(***************************************************************************)
EmptyReports == [i \in {} |-> 0]

RECURSIVE BuildRunners(_, _, _)
BuildRunners(i, fl, acc) ==
  IF i > Len(benchmarks)
  THEN acc
  ELSE LET b == benchmarks[i]
           has_complexity == families_[b.family].complexity_ # oNone
           reports0 ==
             IF has_complexity /\ b.family_index \notin DOMAIN acc.reports
             THEN (b.family_index :>
                     [num_runs_total |-> 0, num_runs_done |-> 0,
                      Runs |-> <<>>]) @@ acc.reports
             ELSE acc.reports
           runner == BenchmarkRunner(
                       b, IF has_complexity THEN b.family_index ELSE None, fl)
           reports1 ==
             IF has_complexity
             THEN [reports0 EXCEPT ![b.family_index].num_runs_total =
                                      @ + runner.repeats]
             ELSE reports0
       IN  BuildRunners(i + 1, fl,
             [runners |-> Append(acc.runners, runner), reports |-> reports1])

RepetitionIndices_OneTokenPerRunner(rs, i) == [k \in 1..Len(rs) |-> k]

\* std::fill_n per runner: GetNumRepeats() copies of the runner's index.
RECURSIVE RepetitionIndices(_, _)
RepetitionIndices(rs, i) ==
  IF i > Len(rs)
  THEN <<>>
  ELSE [k \in 1..rs[i].repeats |-> i] \o RepetitionIndices(rs, i + 1)

\* std::shuffle: every order of the same tokens.
RECURSIVE Shuffles(_)
Shuffles(indices) ==
  IF indices = <<>>
  THEN {<<>>}
  ELSE UNION {
         {<<indices[k]>> \o rest :
            rest \in Shuffles([j \in 1..(Len(indices) - 1) |->
                                 IF j < k THEN indices[j] ELSE indices[j + 1]])}
         : k \in 1..Len(indices)}

Schedules_AlwaysShuffles(rs, fl) == Shuffles(RepetitionIndices(rs, 1))

Schedules(rs, fl) ==
  IF fl.benchmark_enable_random_interleaving
  THEN Shuffles(RepetitionIndices(rs, 1))
  ELSE {RepetitionIndices(rs, 1)}


(***************************************************************************)
(* The flags with their defaults, and the arguments and the environment of *)
(* a RunSpecifiedBenchmarks call: whether reporters are passed in, and     *)
(* whether the output file opens.                                          *)
(***************************************************************************)
DefaultFlags ==
  [benchmark_list_tests |-> FALSE,
   benchmark_filter |-> <<".">>,
   benchmark_repetitions |-> 1,
   benchmark_enable_random_interleaving |-> FALSE,
   benchmark_report_aggregates_only |-> FALSE,
   benchmark_display_aggregates_only |-> FALSE,
   benchmark_format |-> "console",
   benchmark_out_format |-> "json",
   benchmark_out |-> <<>>,
   display_reporter |-> TRUE,
   file_reporter |-> FALSE,
   file_opens |-> TRUE]

Formats == {"console", "json", "csv"}

\* The filter RunSpecifiedBenchmarks hands to FindBenchmarks.
FilterSpec_KeepsAll(fl) == fl.benchmark_filter

FilterSpec(fl) ==
  IF fl.benchmark_filter = <<>> \/ fl.benchmark_filter = <<"a", "l", "l">>
  THEN <<".">>
  ELSE fl.benchmark_filter

\* Setting up the reporters: whether it ends in std::exit(1), and what it
\* writes to the error stream.
SetupReporters(fl) ==
  IF ~fl.display_reporter /\ fl.benchmark_format \notin Formats
  THEN [exit |-> TRUE, Err |-> <<"Unexpected format">>]
  ELSE IF fl.benchmark_out = <<>> /\ fl.file_reporter
  THEN [exit |-> TRUE, Err |-> <<"A custom file reporter was provided but --benchmark_out=<file> was not specified.">>]
  ELSE IF fl.benchmark_out # <<>> /\ ~fl.file_opens
  THEN [exit |-> TRUE, Err |-> <<"invalid file name">>]
  ELSE IF fl.benchmark_out # <<>> /\ ~fl.file_reporter
          /\ fl.benchmark_out_format \notin Formats
  THEN [exit |-> TRUE, Err |-> <<"Unexpected format">>]
  ELSE [exit |-> FALSE, Err |-> <<>>]

\* After the setup there is a file reporter exactly when there is a file.
HasFileReporter(fl) == fl.benchmark_out # <<>>

ListOnly_Ignored(fl) == FALSE

ListOnly(fl) == fl.benchmark_list_tests

RunIdle ==
  /\ flags = DefaultFlags
  /\ rpc = "idle"
  /\ benchmarks = <<>>
  /\ runners = <<>>
  /\ per_family_reports = EmptyReports
  /\ repetition_indices = <<>>
  /\ next_repetition = 1
  /\ calls = <<>>
  /\ Out = <<>>
  /\ Err = <<>>
  /\ returned = NotReturned
  /\ RegistryIdle

DriverIdle == families_ = <<>> /\ RunIdle

runVars == <<runners, per_family_reports, repetition_indices, next_repetition,
             calls>>

\* benchmarks.empty() after the search
NoneMatched_Ignored(found) == FALSE

NoneMatched(found) == found.benchmarks = <<>>

(***************************************************************************)
(* RunSpecifiedBenchmarks, up to its call of RunBenchmarks.                *)
(***************************************************************************)
RunSpecifiedBenchmarks(fl) ==
  /\ rpc = "idle"
  /\ UNCHANGED stateVars
  /\ UNCHANGED registryVars
  /\ UNCHANGED runVars
  /\ flags' = fl
  /\ LET setup == SetupReporters(fl)
         found == FindBenchmarks(FilterSpec(fl), families_, <<>>, setup.Err)
     IN  IF setup.exit
         THEN /\ rpc' = "exited"
              /\ returned' = [exited |-> TRUE, value |-> 1]
              /\ Err' = setup.Err
              /\ UNCHANGED <<families_, benchmarks, Out>>
         ELSE /\ families_' = found.families
              /\ benchmarks' = found.benchmarks
              /\ IF ~found.ok
                 THEN /\ rpc' = "returned"
                      /\ returned' = [exited |-> FALSE, value |-> 0]
                      /\ Err' = found.Err
                      /\ UNCHANGED Out
                 ELSE IF NoneMatched(found)
                 THEN /\ rpc' = "returned"
                      /\ returned' = [exited |-> FALSE, value |-> 0]
                      /\ Err' = Append(found.Err,
                                       "Failed to match any benchmarks against regex")
                      /\ UNCHANGED Out
                 ELSE IF ListOnly(fl)
                 THEN /\ rpc' = "returned"
                      /\ returned' = [exited |-> FALSE,
                                      value |-> Len(found.benchmarks)]
                      /\ Out' = [i \in 1..Len(found.benchmarks) |->
                                   found.benchmarks[i].name]
                      /\ Err' = found.Err
                 ELSE /\ rpc' = "context"
                      /\ returned' = NotReturned
                      /\ Err' = found.Err
                      /\ UNCHANGED Out

(***************************************************************************)
(* RunBenchmarks.  ReportContext is called on the display reporter and, if *)
(* that returned true, on the file reporter; when both returned true the   *)
(* runners and the schedule are built.  Runners are numbered from 1.       *)
(***************************************************************************)
\* display_reporter->ReportContext(context) &&
\* (!file_reporter || file_reporter->ReportContext(context))
ContextReported_DisplayOnly(display_ok, file_ok, fl) == display_ok

ContextReported(display_ok, file_ok, fl) ==
  display_ok /\ (~HasFileReporter(fl) \/ file_ok)

RunBenchmarksStart(display_ok, file_ok) ==
  /\ rpc = "context"
  /\ UNCHANGED stateVars
  /\ UNCHANGED registryVars
  /\ UNCHANGED <<families_, flags, benchmarks, Out, Err, returned>>
  /\ calls' = calls \o <<ReporterCall("display", "ReportContext")>>
                \o (IF display_ok /\ HasFileReporter(flags)
                    THEN <<ReporterCall("file", "ReportContext")>>
                    ELSE <<>>)
  /\ IF ContextReported(display_ok, file_ok, flags)
     THEN LET built == BuildRunners(1, flags,
                         [runners |-> <<>>, reports |-> EmptyReports])
          IN  /\ runners' = built.runners
              /\ per_family_reports' = built.reports
              /\ repetition_indices' \in Schedules(built.runners, flags)
              /\ next_repetition' = 1
              /\ rpc' = "loop"
     ELSE /\ rpc' = "finalize"
          /\ UNCHANGED <<runners, per_family_reports, repetition_indices,
                         next_repetition>>

\* if (runner.HasRepeatsRemaining()) continue;
SkipReport_Never(r) == FALSE

SkipReport(r) == HasRepeatsRemaining(r)

\* reports_for_family->num_runs_done == reports_for_family->num_runs_total
FamilyDone_Always(rf) == TRUE

FamilyDone(rf) == rf.num_runs_done = rf.num_runs_total

\* The family key that per_family_reports.erase is given: family_index of
\* Runs.front(), which is undefined for a collector that kept no run.
EraseKeys(rf) ==
  IF rf.Runs # <<>>
  THEN {rf.Runs[1].family_index}
  ELSE DOMAIN per_family_reports \cup {None}

\* One turn of the loop over repetition_indices.
RunBenchmarksRepetition(err) ==
  /\ rpc = "loop"
  /\ next_repetition <= Len(repetition_indices)
  /\ UNCHANGED stateVars
  /\ UNCHANGED registryVars
  /\ UNCHANGED <<families_, flags, benchmarks, repetition_indices, Out, Err,
                 returned, rpc>>
  /\ next_repetition' = next_repetition + 1
  /\ LET i == repetition_indices[next_repetition]
         r == runners[i]
         r1 == DoOneRepetition(r, benchmarks[i], err)
         fi == r.reports_for_family
         reports1 ==
           IF fi # None
           THEN [per_family_reports EXCEPT ![fi] = RecordRun(@, r, r1)]
           ELSE per_family_reports
     IN  /\ runners' = [runners EXCEPT ![i] = r1]
         /\ IF SkipReport(r1)
            THEN /\ per_family_reports' = reports1
                 /\ UNCHANGED calls
            ELSE LET run_results == GetResults(r1)
                     family_done == fi # None /\ FamilyDone(reports1[fi])
                     results1 ==
                       IF family_done
                       THEN [run_results EXCEPT
                               !.aggregates_only =
                                  @ \o ComputeBigO(reports1[fi].Runs)]
                       ELSE run_results
                 IN  /\ IF family_done
                        THEN \E key \in EraseKeys(reports1[fi]) :
                               per_family_reports' =
                                 [k \in DOMAIN reports1 \ {key} |-> reports1[k]]
                        ELSE per_family_reports' = reports1
                     /\ calls' = calls
                          \o <<[reporter |-> "both", op |-> "Report",
                                runner |-> i,
                                what |-> IF family_done THEN "BigO" ELSE "",
                                size |-> Len(results1.aggregates_only)]>>
                          \o Report(HasFileReporter(flags), results1, i)

\* The end of RunBenchmarks, and RunSpecifiedBenchmarks returns.
RunBenchmarksFinalize ==
  /\ \/ rpc = "finalize"
     \/ rpc = "loop" /\ next_repetition > Len(repetition_indices)
  /\ UNCHANGED stateVars
  /\ UNCHANGED registryVars
  /\ UNCHANGED <<families_, flags, benchmarks, runners, per_family_reports,
                 repetition_indices, next_repetition, Out, Err>>
  /\ calls' = calls \o <<ReporterCall("display", "Finalize")>>
                \o (IF HasFileReporter(flags)
                    THEN <<ReporterCall("file", "Finalize")>>
                    ELSE <<>>)
  /\ rpc' = "returned"
  /\ returned' = [exited |-> FALSE, value |-> Len(benchmarks)]

(***************************************************************************)
(* Initialize: the command line is parsed into the flags and validated;    *)
(* a format outside console/json/csv prints the usage and ends the process *)
(* with PrintUsageAndExit's exit code.                                     *)
(***************************************************************************)
PrintUsageAndExit == [exited |-> TRUE, value |-> 0]

ValidateCommandLineFlags(fl) ==
  fl.benchmark_format \in Formats /\ fl.benchmark_out_format \in Formats

Initialize(fl) ==
  /\ RunIdle
  /\ flags' = fl
  /\ IF ValidateCommandLineFlags(fl)
     THEN UNCHANGED <<rpc, returned>>
     ELSE rpc' = "exited" /\ returned' = PrintUsageAndExit
  /\ UNCHANGED stateVars
  /\ UNCHANGED registryVars
  /\ UNCHANGED <<families_, benchmarks, Out, Err>>
  /\ UNCHANGED runVars

(***************************************************************************)
(* Registration: BENCHMARK(name) followed by builder calls, and            *)
(* ClearRegisteredBenchmarks.                                              *)
(***************************************************************************)
RegisterBenchmark(name, chain) ==
  /\ rpc = "idle"
  /\ Len(families_) < MaxFamilies
  /\ LET added == AddBenchmark(families_, Benchmark(name))
     IN  families_' = [added.families EXCEPT ![added.index + 1] =
                         BuilderChain(@, chain)]
  /\ UNCHANGED stateVars
  /\ UNCHANGED registryVars
  /\ UNCHANGED <<flags, rpc, benchmarks, Out, Err, returned>>
  /\ UNCHANGED runVars

ClearRegisteredBenchmarks ==
  /\ rpc = "idle"
  /\ families_' = ClearBenchmarks(families_)
  /\ UNCHANGED stateVars
  /\ UNCHANGED registryVars
  /\ UNCHANGED <<flags, rpc, benchmarks, Out, Err, returned>>
  /\ UNCHANGED runVars


StateInit ==
  /\ max_iterations \in 1..MaxIters
  /\ state = [t \in Workers |-> NewState]
  /\ pc = [t \in Workers |-> "body"]
  /\ wait_phase = [t \in Workers |-> 0]
  /\ entered_ = 0
  /\ phase_number_ = 0
  /\ results = [has_error_ |-> FALSE, error_message_ |-> NoMsg]
  /\ trueCount = [t \in Workers |-> 0]
  /\ barrierCalls = [t \in Workers |-> 0]
  /\ my_msg = [t \in Workers |-> NoMsg]

Init == StateInit /\ DriverIdle

Next ==
  \E t \in Workers :
    \/ CallKeepRunning(t)
    \/ LeaveStartBarrier(t)
    \/ LeaveStopBarrier(t)
    \/ CallPauseTiming(t)
    \/ CallResumeTiming(t)
    \/ \E msg \in Msgs \cup {NullMsg} : CallSkipWithError(t, msg)
    \/ BodyReturn(t)

Spec == Init /\ [][Next]_vars

(***************************************************************************)
(* SpecFind: benchmarks are registered and RunSpecifiedBenchmarks is run   *)
(* once with some filter, listing or running the selected instances under  *)
(* the default flags.                                                      *)
(***************************************************************************)
Names == {<<"a">>, <<"a", "b">>, <<"b">>}

Chains ==
  {<<>>,
   <<[op |-> "Arg", x |-> 1], [op |-> "Arg", x |-> 2]>>,
   <<[op |-> "Threads", x |-> 1], [op |-> "Threads", x |-> 2]>>,
   <<[op |-> "Arg", x |-> 1], [op |-> "Arg", x |-> 2],
     [op |-> "Threads", x |-> 1], [op |-> "Threads", x |-> 2]>>}

Filters ==
  {<<>>, <<".">>, <<"a">>, <<"a", "b">>, <<"-", "a">>, <<"2">>, <<"-", "2">>,
   <<"a", "l", "l">>, <<"-", "a", "l", "l">>, <<"(">>}

FindFlags ==
  {[DefaultFlags EXCEPT !.benchmark_filter = f, !.benchmark_list_tests = l] :
     f \in Filters, l \in BOOLEAN}

StateIdle ==
  /\ max_iterations = 1
  /\ state = [t \in Workers |-> NewState]
  /\ pc = [t \in Workers |-> "body"]
  /\ wait_phase = [t \in Workers |-> 0]
  /\ entered_ = 0
  /\ phase_number_ = 0
  /\ results = [has_error_ |-> FALSE, error_message_ |-> NoMsg]
  /\ trueCount = [t \in Workers |-> 0]
  /\ barrierCalls = [t \in Workers |-> 0]
  /\ my_msg = [t \in Workers |-> NoMsg]

FindInit == StateIdle /\ DriverIdle

FindNext ==
  \/ \E name \in Names, chain \in Chains : RegisterBenchmark(name, chain)
  \/ ClearRegisteredBenchmarks
  \/ \E fl \in FindFlags : RunSpecifiedBenchmarks(fl)
  \/ \E display_ok \in BOOLEAN : RunBenchmarksStart(display_ok, TRUE)
  \/ RunBenchmarksRepetition(FALSE)
  \/ RunBenchmarksFinalize

SpecFind == FindInit /\ [][FindNext]_vars

(***************************************************************************)
(* SpecRun: RunSpecifiedBenchmarks is run once over a small registry, with *)
(* the run flags varying and benchmark bodies that may skip with an error. *)
(* A run is started only when its schedule has at most MaxTokens tokens.   *)
(***************************************************************************)
RunNames == <<<<"a">>, <<"b">>, <<"c">>, <<"d">>>>

RunChains ==
  {<<>>,
   <<[op |-> "Repetitions", x |-> 2, big_o |-> oNone]>>,
   <<[op |-> "Arg", x |-> 1, big_o |-> oNone],
     [op |-> "Arg", x |-> 2, big_o |-> oNone]>>,
   <<[op |-> "Arg", x |-> 1, big_o |-> oNone],
     [op |-> "Complexity", x |-> 0, big_o |-> oN]>>,
   <<[op |-> "Arg", x |-> 1, big_o |-> oNone],
     [op |-> "Arg", x |-> 2, big_o |-> oNone],
     [op |-> "Complexity", x |-> 0, big_o |-> oN]>>}

RunRegistries ==
  UNION {{[k \in 1..n |-> BuilderChain(Benchmark(RunNames[k]), chains[k])] :
            chains \in [1..n -> RunChains]} : n \in 1..MaxRunFamilies}

RunFlags ==
  {[DefaultFlags EXCEPT
      !.benchmark_repetitions = n,
      !.benchmark_enable_random_interleaving = shuffle,
      !.benchmark_report_aggregates_only = report_only,
      !.benchmark_display_aggregates_only = display_only,
      !.benchmark_out = out] :
     n \in 1..MaxRepetitions, shuffle \in BOOLEAN, report_only \in BOOLEAN,
     display_only \in BOOLEAN, out \in {<<>>, <<"f">>}}
  \cup {[DefaultFlags EXCEPT !.file_reporter = TRUE],
        [DefaultFlags EXCEPT !.benchmark_out = <<"f">>, !.file_opens = FALSE],
        [DefaultFlags EXCEPT !.benchmark_out = <<"f">>,
                             !.benchmark_out_format = "xml"],
        [DefaultFlags EXCEPT !.benchmark_format = "xml"],
        [DefaultFlags EXCEPT !.display_reporter = FALSE],
        [DefaultFlags EXCEPT !.display_reporter = FALSE,
                             !.benchmark_format = "xml"]}

RECURSIVE SumRepeats(_, _, _)
SumRepeats(bs, fl, i) ==
  IF i > Len(bs) THEN 0 ELSE GetNumRepeats(bs[i], fl) + SumRepeats(bs, fl, i + 1)

TokensWithin(fl) ==
  SumRepeats(FindBenchmarks(FilterSpec(fl), families_, <<>>, <<>>).benchmarks,
             fl, 1) <= MaxTokens

RunInit == StateIdle /\ families_ \in RunRegistries /\ RunIdle

\* What a command line can set: the flags, not the reporters handed to
\* RunSpecifiedBenchmarks nor whether the output file opens.
InitFlags ==
  {fl \in RunFlags :
     /\ fl.display_reporter = DefaultFlags.display_reporter
     /\ fl.file_reporter = DefaultFlags.file_reporter
     /\ fl.file_opens = DefaultFlags.file_opens}

RunNext ==
  \/ \E fl \in InitFlags : Initialize(fl)
  \/ /\ rpc = "idle"
     /\ \E fl \in RunFlags : TokensWithin(fl) /\ RunSpecifiedBenchmarks(fl)
  \/ \E display_ok, file_ok \in BOOLEAN : RunBenchmarksStart(display_ok, file_ok)
  \/ \E err \in BOOLEAN : RunBenchmarksRepetition(err)
  \/ RunBenchmarksFinalize

SpecRun == RunInit /\ [][RunNext]_vars


(***************************************************************************)
(* SpecBuild: one family is registered and configured by builder calls,    *)
(* one call per step, until a CHECK fails or the registry is searched by   *)
(* RunSpecifiedBenchmarks listing every instance.  Calls that push         *)
(* argument tuples are made while fewer than MaxArgs tuples are there,     *)
(* Threads while fewer than MaxThreadCounts thread counts are there.       *)
(* Range takes 0 <= lo <= hi.                                              *)
(***************************************************************************)
\* ArgsProduct with no list at all passes its CHECK on a family of arity -1
\* or 0, pushes the empty tuple and then advances indices[0] over
\* arglists[0], neither of which exists.
UndefinedProduct(f, c) ==
  /\ c.op \in {"ArgsProduct", "Ranges"}
  /\ c.x = <<>>
  /\ ArgsCnt(f) \in {-1, 0}

\* A DenseRange call: it returns, or hangs in its loop, or reaches the
\* signed overflow of arg += step, which is undefined: the process ends, or
\* goes on looping, or the call returns with what it had pushed.
DenseRangeCall(f, start, limit, step) ==
  LET ends == DenseRangeEnds(f, start, limit, step)
  IN  \/ /\ ends \in {"returns", "overflow"}
         /\ families_' = <<DenseRange(f, start, limit, step)>>
         /\ rpc' = rpc
      \/ /\ ends \in {"never", "overflow"}
         /\ families_' = families_
         /\ rpc' = "hung"
      \/ /\ ends = "overflow"
         /\ families_' = families_
         /\ rpc' = "crashed"

\* ends in the undefined advance of the indices.
Builder(c) ==
  /\ rpc = "idle"
  /\ Len(families_) = 1
  /\ ~families_[1].check_failed
  /\ IF UndefinedProduct(families_[1], c)
     THEN \/ /\ families_' = <<[families_[1] EXCEPT !.args_ = Append(@, <<>>)]>>
             /\ rpc' = rpc
          \/ /\ families_' = families_
             /\ rpc' = "crashed"
     ELSE IF c.op = "DenseRange"
     THEN DenseRangeCall(families_[1], c.x, c.y, c.z)
     ELSE /\ families_' = <<BuilderCall(families_[1], c)>>
          /\ rpc' = rpc
  /\ UNCHANGED stateVars
  /\ UNCHANGED registryVars
  /\ UNCHANGED <<flags, benchmarks, Out, Err, returned>>
  /\ UNCHANGED runVars

ListFlags == [DefaultFlags EXCEPT !.benchmark_list_tests = TRUE]

ListBenchmarks ==
  /\ Len(families_) = 1
  /\ ~families_[1].check_failed
  /\ RunSpecifiedBenchmarks(ListFlags)

CanPush == families_ # <<>> /\ Len(families_[1].args_) < MaxArgs

CanAddThreads ==
  families_ # <<>> /\ Len(families_[1].thread_counts_) < MaxThreadCounts

ArgValues == {1, 2}
ArgsValues == {<<>>, <<1, 2>>}
RangeValues == {<<1, 8>>, <<3, 10>>, <<8, 8>>}
RangesValues == {<<>>, <<<<1, 8>>>>, <<<<1, 2>>, <<3, 10>>>>}
ProductValues ==
  {<<>>, <<<<1, 2>>>>, <<<<1, 2>>, <<3, 4>>>>, <<<<1, 2, 3>>, <<4, 5>>>>,
   <<<<1, 2>>, <<>>>>}
DenseValues ==
  {<<1, 3, 1>>, <<1, 4, 2>>, <<2, 1, 1>>, <<1, 3, 0>>,
   <<Int64Min + 1, Int64Min + 2, -1>>,
   <<Int64Max - 1, Int64Max, 1>>, <<3, 3, 5>>}
NameValues == {<<"n">>}
NamesValues == {<<<<"n">>>>, <<<<"a">>, <<"b">>>>}
MultiplierValues == {1, 2}
MinTimeValues == {0, 1, 2 * Epsilon}
IterationsValues == {0, 1}
ThreadsValues == {0, 2}

BuildInit ==
  /\ StateIdle
  /\ RunIdle
  /\ families_ = AddBenchmark(<<>>, Benchmark(<<"a">>)).families

BuildNext ==
  \/ CanPush /\ \E x \in ArgValues : Builder([op |-> "Arg", x |-> x])
  \/ CanPush /\ \E x \in ArgsValues : Builder([op |-> "Args", x |-> x])
  \/ CanPush /\ \E r \in RangeValues :
       Builder([op |-> "Range", x |-> r[1], y |-> r[2]])
  \/ CanPush /\ \E x \in RangesValues : Builder([op |-> "Ranges", x |-> x])
  \/ CanPush /\ \E x \in ProductValues :
       Builder([op |-> "ArgsProduct", x |-> x])
  \/ CanPush /\ \E r \in DenseValues :
       Builder([op |-> "DenseRange", x |-> r[1], y |-> r[2], z |-> r[3]])
  \/ \E x \in NameValues : Builder([op |-> "ArgName", x |-> x])
  \/ \E x \in NamesValues : Builder([op |-> "ArgNames", x |-> x])
  \/ \E x \in MultiplierValues : Builder([op |-> "RangeMultiplier", x |-> x])
  \/ \E x \in MinTimeValues : Builder([op |-> "MinTime", x |-> x])
  \/ \E x \in IterationsValues : Builder([op |-> "Iterations", x |-> x])
  \/ CanAddThreads /\ \E x \in ThreadsValues :
       Builder([op |-> "Threads", x |-> x])
  \/ ListBenchmarks

SpecBuild == BuildInit /\ [][BuildNext]_vars

(***************************************************************************)
(* SpecRegistry: NumCallers threads call AddBenchmark, ClearBenchmarks and *)
(* FindBenchmarks on the registry, in any interleaving of their steps.     *)
(***************************************************************************)
RegistryFamilies ==
  {Benchmark(<<"a">>),
   BuilderChain(Benchmark(<<"b">>),
                <<[op |-> "Arg", x |-> 1], [op |-> "Arg", x |-> 2]>>)}

RegistrySpecs == {<<".">>, <<"-", "a">>}

RegistryInit == StateIdle /\ DriverIdle

RegistryNext ==
  \E c \in Callers :
    \/ \E family \in RegistryFamilies : AddBenchmarkLock(c, family)
    \/ AddBenchmarkSize(c)
    \/ AddBenchmarkPush(c)
    \/ AddBenchmarkReturn(c)
    \/ ClearBenchmarksLock(c)
    \/ ClearBenchmarksReturn(c)
    \/ \E spec \in RegistrySpecs : FindBenchmarksLock(c, spec)
    \/ FindBenchmarksFamily(c)
    \/ FindBenchmarksReturn(c)

SpecRegistry == RegistryInit /\ [][RegistryNext]_vars

(***************************************************************************)
(* The workers are OS threads: one that is in its loop keeps making        *)
(* iteration checks, and one released from a barrier leaves it.            *)
(***************************************************************************)
FairSpec ==
  /\ Spec
  /\ \A t \in Workers :
       /\ WF_vars(~state[t].finished_ /\ CallKeepRunning(t))
       /\ WF_vars(LeaveStartBarrier(t))
       /\ WF_vars(LeaveStopBarrier(t))

\* Worker t has returned from the StartStopBarrier call of FinishKeepRunning.
PassedStopBarrier(t) ==
  \/ barrierCalls[t] > 2
  \/ barrierCalls[t] = 2 /\ pc[t] \in {"body", "returned"}

\* This step is a false return of worker t's iteration check.
ReturnsFalse(t) == pc[t] = "stop_wait" /\ pc'[t] = "body"

(***************************************************************************)
(* C1: without SkipWithError the iteration check of a State returns true   *)
(* exactly max_iterations times and then false; once SkipWithError has     *)
(* been called on the State no later iteration check returns true.         *)
(***************************************************************************)
C1_IterationCheckCount ==
  [][\A t \in Workers :
       /\ state[t].error_occurred_ => trueCount'[t] = trueCount[t]
       /\ trueCount'[t] <= max_iterations
       /\ ReturnsFalse(t) /\ ~state'[t].error_occurred_
            => trueCount'[t] = max_iterations]_vars

C1_Witness ==
  /\ max_iterations > 1
  /\ \E t \in Workers :
       /\ ~state[t].error_occurred_ /\ PassedStopBarrier(t)
       /\ trueCount[t] = max_iterations
  /\ \E u \in Workers :
       /\ state[u].error_occurred_ /\ PassedStopBarrier(u)
       /\ trueCount[u] = 1

(***************************************************************************)
(* C2: every worker's State calls StartStopBarrier exactly twice in a      *)
(* repetition: never a third time, and twice by the time the body returns. *)
(***************************************************************************)
C2_BarrierCalledTwice ==
  \A t \in Workers :
    /\ barrierCalls[t] <= 2
    /\ pc[t] = "returned" => barrierCalls[t] = 2

(***************************************************************************)
(* C3: no worker's timer runs and no worker has taken an iteration before  *)
(* every worker has arrived at the start barrier, and no worker has        *)
(* returned from FinishKeepRunning before every worker has finished        *)
(* iterating and arrived at the stop barrier.                              *)
(***************************************************************************)
C3_BarrierCorrectness ==
  \A t \in Workers :
    /\ state[t].running \/ trueCount[t] > 0
         => \A u \in Workers : barrierCalls[u] >= 1
    /\ PassedStopBarrier(t)
         => \A u \in Workers : barrierCalls[u] >= 2 /\ state[u].finished_

C3_Witness ==
  /\ \A t \in Workers : PassedStopBarrier(t) /\ trueCount[t] > 0
  /\ \E t \in Workers : pc[t] = "returned"

(***************************************************************************)
(* C4: whichever workers call SkipWithError, before the first iteration    *)
(* check or in the loop, every worker eventually passes both barriers and  *)
(* reaches finished_, in every run in which no CHECK fails.                *)
(***************************************************************************)
AllFinished ==
  \A t \in Workers : state[t].finished_ /\ PassedStopBarrier(t)

C4_ErrorsDoNotBlock == <>(Aborted \/ AllFinished)

C4_Witness ==
  /\ AllFinished
  /\ ~Aborted
  /\ \E t \in Workers : state[t].error_occurred_ /\ trueCount[t] = 0
  /\ \E u \in Workers : ~state[u].error_occurred_

(***************************************************************************)
(* C5: the error message of the shared results is that of the first        *)
(* SkipWithError call to take the mutex; every later call leaves           *)
(* has_error_ true and error_message_ unchanged.                           *)
(***************************************************************************)
C5_FirstErrorMessageWins ==
  [][/\ results.has_error_
          => results'.has_error_
             /\ results'.error_message_ = results.error_message_
     /\ ~results.has_error_ /\ results'.has_error_
          => \E t \in Workers :
               /\ my_msg'[t] # my_msg[t]
               /\ results'.error_message_ = my_msg'[t]]_vars

C5_Witness ==
  /\ results.has_error_
  /\ \E t, u \in Workers :
       /\ t # u
       /\ my_msg[t] = results.error_message_
       /\ my_msg[u] \in Msgs \ {results.error_message_}

(***************************************************************************)
(* C6: PauseTiming and ResumeTiming succeed only in a State that is        *)
(* started, not finished and not errored; in any other State the call      *)
(* fails its CHECK and leaves the timer as it was.                         *)
(***************************************************************************)
TimingAllowed(s) == s.started_ /\ ~s.finished_ /\ ~s.error_occurred_

C6_TimingOnlyWhileRunning ==
  [][\A t \in Workers :
       (CallPauseTiming(t) \/ CallResumeTiming(t)) /\ ~TimingAllowed(state[t])
         => /\ state'[t].check_failed \in {"PauseTiming", "ResumeTiming"}
            /\ state'[t].running = state[t].running]_vars

C6_Witness ==
  /\ \E t \in Workers :
       state[t].check_failed = "ResumeTiming" /\ state[t].error_occurred_

(***************************************************************************)
(* The expanded instances of a registry, told apart by family, argument    *)
(* tuple and thread count, and the instances a filter selects.             *)
(***************************************************************************)
ArgsOf(f) == IF ArgsCnt(f) = -1 THEN <<<<>>>> ELSE f.args_

ThreadsOf(f) == IF f.thread_counts_ = <<>> THEN <<1>> ELSE f.thread_counts_

Expanded(fams) ==
  {[family |-> k, args |-> ArgsOf(fams[k])[i], threads |-> ThreadsOf(fams[k])[j]] :
     <<k, i, j>> \in
       {s \in (1..Len(fams)) \X (1..2) \X (1..2) :
          /\ s[2] <= Len(ArgsOf(fams[s[1]]))
          /\ s[3] <= Len(ThreadsOf(fams[s[1]]))}}

FullName(fams, e) == InstanceName(fams[e.family], e.args, e.threads)

IsNegative(filter) == filter # <<>> /\ filter[1] = "-"

\* The instances the claim says a filter selects.
Matching(fams, filter) ==
  {e \in Expanded(fams) :
     IF IsNegative(filter)
     THEN ~Match(Tail(filter), FullName(fams, e))
     ELSE Match(filter, FullName(fams, e))}

\* The instances a run with the filter selects.
RunSelects(fams, filter) ==
  LET found == FindBenchmarks(
                 FilterSpec([DefaultFlags EXCEPT !.benchmark_filter = filter]),
                 fams, <<>>, <<>>)
  IN  {[family |-> found.benchmarks[n].family,
        args |-> found.benchmarks[n].args,
        threads |-> found.benchmarks[n].threads] :
         n \in 1..Len(found.benchmarks)}

Negation(filter) ==
  IF IsNegative(filter) THEN Tail(filter) ELSE <<"-">> \o filter

Partitioned(fams, filter) ==
  \A e \in Expanded(fams) :
    (e \in RunSelects(fams, filter)) # (e \in RunSelects(fams, Negation(filter)))

Compiles(filter) ==
  RegexInit(IF IsNegative(filter) THEN Tail(filter) ELSE filter)

HasReturned == ~returned.exited /\ returned.value # None

\* C7 as stated: RunSpecifiedBenchmarks returns the number of expanded
\* instances whose full name matches the filter (does not match the rest of
\* a filter that starts with '-'), and every expanded instance is selected
\* by exactly one of the filter and its negation.
C7_ReturnsMatchingCount ==
  HasReturned =>
    /\ returned.value
         = Cardinality(Matching(families_, flags.benchmark_filter))
    /\ Partitioned(families_, flags.benchmark_filter)

AllFilter == <<"a", "l", "l">>

\* C7 amended: RunSpecifiedBenchmarks returns the number of expanded
\* instances the filter selects.  The empty filter and the filter "all"
\* select every instance; any other filter whose regular expression compiles
\* selects the instances whose full name matches it, or, when it starts with
\* '-', those whose full name does not match the rest; a filter whose regular
\* expression does not compile selects nothing.  For a compiling filter other
\* than "all" and "-all", every expanded instance is selected by exactly one
\* of the filter and its negation.
C7_ReturnsSelectedCount ==
  HasReturned =>
    LET filter == flags.benchmark_filter
    IN  /\ filter \in {<<>>, AllFilter}
             => returned.value = Cardinality(Expanded(families_))
        /\ filter \notin {<<>>, AllFilter} /\ Compiles(filter)
             => returned.value = Cardinality(Matching(families_, filter))
        /\ ~Compiles(filter) => returned.value = 0
        /\ Compiles(filter) /\ filter \notin {AllFilter, <<"-">> \o AllFilter}
             => Partitioned(families_, filter)

\* A negative filter that selects some instances and leaves out others.
C7_Witness ==
  /\ HasReturned
  /\ IsNegative(flags.benchmark_filter)
  /\ returned.value > 0
  /\ returned.value < Cardinality(Expanded(families_))

\* C8: the family_index values of the selected instances are dense and in
\* registration order: an instance's family_index is the number of earlier
\* families with a selected instance, so the values are exactly 0..F-1, a
\* family without a selected instance takes no index, and the instances of
\* one family share theirs.
SelectedFamilies == {benchmarks[n].family : n \in 1..Len(benchmarks)}

C8_FamilyIndexDense ==
  \A n \in 1..Len(benchmarks) :
    benchmarks[n].family_index
      = Cardinality({k \in SelectedFamilies : k < benchmarks[n].family})

\* The second family has two selected instances, the first has none.
C8_Witness ==
  /\ Len(benchmarks) = 2
  /\ benchmarks[1].family = 2
  /\ benchmarks[2].family = 2
  /\ benchmarks[1].family_index = 0

\* C9: with list_tests set, RunSpecifiedBenchmarks writes the name of every
\* matched instance, never enters RunBenchmarks (no repetition, no reporter
\* call), and returns the number of matched instances.
C9_ListTestsRunsNothing ==
  flags.benchmark_list_tests /\ rpc # "idle" =>
    /\ rpc = "returned"
    /\ Out = [n \in 1..Len(benchmarks) |-> benchmarks[n].name]
    /\ runners = <<>>
    /\ calls = <<>>
    /\ returned = [exited |-> FALSE, value |-> Len(benchmarks)]

C9_Witness ==
  /\ flags.benchmark_list_tests
  /\ rpc = "returned"
  /\ Len(Out) = 2
  /\ returned.value = 2

\* C10: once RunBenchmarks has built the Runners, an instance's RunResults
\* have been handed to Report exactly once if its Runner has no repetition
\* left and not at all otherwise, so Report comes with the DoOneRepetition
\* call that exhausts the Runner; at the end every instance was reported; an
\* instance with one repetition and no aggregates got exactly one ReportRuns
\* call on the display reporter.
ReportsOf(i) ==
  Cardinality({n \in 1..Len(calls) :
                 calls[n].op = "Report" /\ calls[n].runner = i})

DisplayReportRunsOf(i) ==
  Cardinality({n \in 1..Len(calls) :
                 /\ calls[n].op = "ReportRuns"
                 /\ calls[n].reporter = "display"
                 /\ calls[n].runner = i})

NoAggregates(i) ==
  \A n \in 1..Len(calls) :
    calls[n].op = "Report" /\ calls[n].runner = i => calls[n].size = 0

C10_ReportedOnceWhenExhausted ==
  rpc \in {"loop", "returned"} /\ runners # <<>> =>
    /\ Len(runners) = Len(benchmarks)
    /\ \A i \in 1..Len(runners) :
         /\ ReportsOf(i) =
              IF runners[i].num_repetitions_done = runners[i].repeats
              THEN 1 ELSE 0
         /\ rpc = "returned" => ReportsOf(i) = 1
         /\ ReportsOf(i) = 1 /\ runners[i].repeats = 1 /\ NoAggregates(i)
              => DisplayReportRunsOf(i) = 1

\* A shuffled schedule that comes back to a Runner after another one was
\* reported, and the run has returned.
C10_Witness ==
  /\ rpc = "returned"
  /\ Len(runners) = 2
  /\ repetition_indices = <<1, 2, 1>>
  /\ ReportsOf(1) = 1
  /\ ReportsOf(2) = 1
  /\ DisplayReportRunsOf(2) = 1

RunnersBuilt == rpc \in {"loop", "returned"} /\ runners # <<>>

TokensOf(i) ==
  Cardinality({n \in 1..Len(repetition_indices) : repetition_indices[n] = i})

DispatchedOf(i) ==
  Cardinality({n \in 1..(next_repetition - 1) : repetition_indices[n] = i})

\* C11: the schedule holds exactly GetNumRepeats() tokens per Runner, so
\* its length is the sum over the Runners; when the run has returned, every
\* Runner was given DoOneRepetition that many times, and a Runner without an
\* error holds that many Runs in non_aggregates.
C11_RepetitionsMatchRepeatCount ==
  RunnersBuilt =>
    /\ \A i \in 1..Len(runners) :
         /\ runners[i].repeats = GetNumRepeats(benchmarks[i], flags)
         /\ TokensOf(i) = GetNumRepeats(benchmarks[i], flags)
         /\ rpc = "returned" =>
              /\ runners[i].num_repetitions_done
                   = GetNumRepeats(benchmarks[i], flags)
              /\ ~runners[i].has_error =>
                   Len(runners[i].non_aggregates)
                     = GetNumRepeats(benchmarks[i], flags)
    /\ Len(repetition_indices) = SumRepeats(benchmarks, flags, 1)

\* Two instances, one with two repetitions from its family and one with the
\* flag's single repetition, both run without an error.
C11_Witness ==
  /\ rpc = "returned"
  /\ Len(runners) = 2
  /\ \E i, j \in 1..2 :
       /\ Len(runners[i].non_aggregates) = 2
       /\ Len(runners[j].non_aggregates) = 1
       /\ ~runners[i].has_error /\ ~runners[j].has_error
  /\ Len(repetition_indices) = 3

\* C12: without random interleaving the schedule is sorted by Runner, all
\* tokens of instance i before any of instance i+1; with it the schedule
\* still holds each Runner's index GetNumRepeats() times, in some order.
\* The tokens are dispatched in the order of the schedule.
C12_ScheduleOrder ==
  RunnersBuilt =>
    /\ ~flags.benchmark_enable_random_interleaving =>
         \A m, n \in 1..Len(repetition_indices) :
           m < n => repetition_indices[m] <= repetition_indices[n]
    /\ \A n \in 1..Len(repetition_indices) :
         repetition_indices[n] \in 1..Len(runners)
    /\ \A i \in 1..Len(runners) :
         /\ TokensOf(i) = runners[i].repeats
         /\ runners[i].num_repetitions_done = DispatchedOf(i)

\* A shuffled schedule that starts with the second Runner, run to its end.
C12_Witness ==
  /\ rpc = "returned"
  /\ flags.benchmark_enable_random_interleaving
  /\ repetition_indices = <<2, 1, 1>>
  /\ runners[1].num_repetitions_done = 2

\* C13: a Runner that errored made no Run after the errored one, whatever
\* tokens it had left, and a Runner that did not error has made one Run per
\* dispatched token; when the run has returned every Runner without an
\* error has run all its repetitions, and every Runner has been reported.
C13_ErrorShortCircuitsOneInstance ==
  RunnersBuilt =>
    \A i \in 1..Len(runners) :
      LET runs == runners[i].non_aggregates
      IN  /\ \A n \in 1..Len(runs) :
               runs[n].error_occurred
                 <=> (runners[i].has_error /\ n = Len(runs))
          /\ ~runners[i].has_error =>
               Len(runs) = runners[i].num_repetitions_done
          /\ rpc = "returned" =>
               /\ ~runners[i].has_error => Len(runs) = runners[i].repeats
               /\ ReportsOf(i) = 1

\* The first Runner errored in its first repetition and had a token left;
\* the second one ran after it, without an error.
C13_Witness ==
  /\ rpc = "returned"
  /\ Len(runners) = 2
  /\ runners[1].has_error
  /\ runners[1].repeats = 2
  /\ Len(runners[1].non_aggregates) = 1
  /\ ~runners[2].has_error
  /\ Len(runners[2].non_aggregates) = runners[2].repeats

\* C14: for a family with a complexity the big-O rows are produced exactly
\* once: the Report that carries them comes when every Runner of the family
\* has no repetition left, it is the last Report of the family (of the
\* family's last instance when the schedule is sequential), its
\* aggregates_only holds the statistics and the two rows, and the family's
\* collector is erased then and not before, so no Runner of the family has
\* a repetition left once the collector is gone.
RunnersOf(fi) ==
  {i \in 1..Len(runners) : runners[i].reports_for_family = fi}

ComplexityFamilies ==
  {runners[i].reports_for_family : i \in 1..Len(runners)} \ {None}

BigOReports(fi) ==
  {n \in 1..Len(calls) :
     /\ calls[n].op = "Report"
     /\ calls[n].what = "BigO"
     /\ calls[n].runner \in RunnersOf(fi)}

C14_BigOOnceWhenFamilyDone ==
  RunnersBuilt =>
    /\ \A n \in 1..Len(calls) :
         calls[n].op = "Report" /\ calls[n].what = "BigO"
           => runners[calls[n].runner].reports_for_family # None
    /\ \A fi \in ComplexityFamilies :
         LET done == \A i \in RunnersOf(fi) :
                       runners[i].num_repetitions_done = runners[i].repeats
         IN  /\ Cardinality(BigOReports(fi)) = IF done THEN 1 ELSE 0
             /\ fi \in DOMAIN per_family_reports <=> ~done
             /\ \A n \in BigOReports(fi) :
                  /\ \A m \in 1..Len(calls) :
                       calls[m].op = "Report" /\ calls[m].runner \in RunnersOf(fi)
                         => m <= n
                  /\ calls[n].size
                       = Len(ComputeStats(runners[calls[n].runner])) + 2
                  /\ ~flags.benchmark_enable_random_interleaving =>
                       \A i \in RunnersOf(fi) : i <= calls[n].runner

\* A family of two instances whose schedule was shuffled: the first
\* instance finished last and got the rows.
C14_Witness ==
  /\ rpc = "returned"
  /\ flags.benchmark_enable_random_interleaving
  /\ \E fi \in ComplexityFamilies :
       /\ RunnersOf(fi) = {1, 2}
       /\ \E n \in BigOReports(fi) : calls[n].runner = 1
  /\ per_family_reports = EmptyReports


\* The instances of one family in the order the claim gives: the argument
\* tuples in the outer loop, the thread counts in the inner loop.
RECURSIVE InOrder(_, _, _)
InOrder(fam, args_, thread_counts) ==
  IF args_ = <<>>
  THEN <<>>
  ELSE [j \in 1..Len(thread_counts) |->
          [family |-> fam, args |-> Head(args_), threads |-> thread_counts[j]]]
       \o InOrder(fam, Tail(args_), thread_counts)

RECURSIVE AllInOrder(_, _)
AllInOrder(fams, fam) ==
  IF fam > Len(fams)
  THEN <<>>
  ELSE InOrder(fam, fams[fam].args_, ThreadsOf(fams[fam]))
       \o AllInOrder(fams, fam + 1)

InstanceKey(b) == [family |-> b.family, args |-> b.args, threads |-> b.threads]

OfFamily(fam) == SelectSeq(benchmarks, LAMBDA b : b.family = fam)

RECURSIVE IsSubsequence(_, _)
IsSubsequence(s, t) ==
  IF s = <<>> THEN TRUE
  ELSE IF t = <<>> THEN FALSE
  ELSE IF Head(s) = Head(t) THEN IsSubsequence(Tail(s), Tail(t))
  ELSE IsSubsequence(s, Tail(t))

MaxOf(a, b) == IF a >= b THEN a ELSE b

MatchAll == {<<>>, <<".">>, AllFilter}

Searched == rpc \notin {"idle", "exited"} /\ Compiles(flags.benchmark_filter)

\* C15: once RunSpecifiedBenchmarks has searched the families under a
\* match-all filter, each family has |args_| x max(1, |thread_counts_|)
\* instances and they stand in cross-product order, the argument tuple in the
\* outer loop and the thread count in the inner loop; under any filter the
\* selected instances of a family keep that order and carry the
\* per_family_instance_index 0, 1, 2, ... without gaps.
C15_ExpansionOrder ==
  Searched =>
    /\ flags.benchmark_filter \in MatchAll =>
         /\ [n \in 1..Len(benchmarks) |-> InstanceKey(benchmarks[n])]
              = AllInOrder(families_, 1)
         /\ \A fam \in 1..Len(families_) :
              Len(OfFamily(fam))
                = Len(families_[fam].args_)
                    * MaxOf(1, Len(families_[fam].thread_counts_))
    /\ \A fam \in 1..Len(families_) :
         /\ \A n \in 1..Len(OfFamily(fam)) :
              OfFamily(fam)[n].per_family_instance_index = n - 1
         /\ IsSubsequence(
              [n \in 1..Len(OfFamily(fam)) |-> InstanceKey(OfFamily(fam)[n])],
              InOrder(fam, families_[fam].args_, ThreadsOf(families_[fam])))

\* A family with two argument tuples and two thread counts expanded to four
\* instances under a match-all filter, and the same family cut down to the
\* two instances of the second tuple by a filter.
C15_Witness ==
  /\ Searched
  /\ \E fam \in 1..Len(families_) :
       /\ Len(families_[fam].args_) = 2
       /\ Len(families_[fam].thread_counts_) = 2
       /\ \/ flags.benchmark_filter \in MatchAll /\ Len(OfFamily(fam)) = 4
          \/ /\ flags.benchmark_filter = <<"2">>
             /\ Len(OfFamily(fam)) >= 2
             /\ OfFamily(fam)[1].per_family_instance_index = 0


(***************************************************************************)
(* Builder calls: the tuples a call pushed, and the order of a product.    *)
(***************************************************************************)
Built == families_[1]

Pushed ==
  SubSeq(families_'[1].args_, Len(families_[1].args_) + 1,
         Len(families_'[1].args_))

\* The call was made, passed its CHECKs and returned.
Accepted(c) == Builder(c) /\ rpc' = "idle" /\ ~families_'[1].check_failed

\* The call was made and failed a CHECK.
Rejected(c) == Builder(c) /\ families_'[1].check_failed

RECURSIVE SizeProduct(_, _, _)
SizeProduct(arglists, from, to) ==
  IF from > to
  THEN 1
  ELSE Len(arglists[from]) * SizeProduct(arglists, from + 1, to)

\* Tuple n (from 0) of the product when position 1 varies fastest, and when
\* the last position does.
FirstFastest(arglists, n) ==
  [k \in 1..Len(arglists) |->
     arglists[k][((n \div SizeProduct(arglists, 1, k - 1))
                    % Len(arglists[k])) + 1]]

LastFastest(arglists, n) ==
  [k \in 1..Len(arglists) |->
     arglists[k][((n \div SizeProduct(arglists, k + 1, Len(arglists)))
                    % Len(arglists[k])) + 1]]

Combinations(arglists) ==
  {idx \in [1..Len(arglists) -> 1..3] :
     \A k \in 1..Len(arglists) : idx[k] <= Len(arglists[k])}

EachCombinationOnce(arglists, pushed) ==
  /\ Len(pushed) = SizeProduct(arglists, 1, Len(arglists))
  /\ \A n \in 1..Len(pushed) : Len(pushed[n]) = Len(arglists)
  /\ \A idx \in Combinations(arglists) :
       Cardinality({n \in 1..Len(pushed) :
                      \A k \in 1..Len(arglists) :
                        pushed[n][k] = arglists[k][idx[k]]}) = 1

ProductCall(arglists) == Accepted([op |-> "ArgsProduct", x |-> arglists])

RECURSIVE Pow(_, _)
Pow(m, k) == IF k = 0 THEN 1 ELSE m * Pow(m, k - 1)

IsPowerOf(p, m) == \E k \in 0..p : Pow(m, k) = p

RECURSIVE Ascending(_)
Ascending(S) ==
  IF S = {}
  THEN <<>>
  ELSE LET x == CHOOSE y \in S : \A z \in S : y <= z
       IN  <<x>> \o Ascending(S \ {x})

\* lo, the powers of m strictly between lo and hi, hi.
PowersBetween(lo, hi, m) ==
  Ascending({lo, hi} \cup {p \in (lo + 1)..(hi - 1) : IsPowerOf(p, m)})

RECURSIVE Multiples(_, _, _)
Multiples(v, hi, m) ==
  IF v >= hi THEN <<>> ELSE <<v>> \o Multiples(v * m, hi, m)

\* lo, lo*m, lo*m^2, ... while below hi, hi.
MultiplesOfLo(lo, hi, m) ==
  <<lo>> \o Multiples(lo * m, hi, m) \o (IF hi = lo THEN <<>> ELSE <<hi>>)

Singles(seq) == [n \in 1..Len(seq) |-> <<seq[n]>>]

RangeCall(r) == Accepted([op |-> "Range", x |-> r[1], y |-> r[2]])

CreateMultipliers == {2, 3, kRangeMultiplier}

C18_NoArgsExpandsAsEmptyTuple ==
  [][ListBenchmarks /\ Built.args_ = <<>> =>
       /\ Len(benchmarks') = MaxOf(1, Len(Built.thread_counts_))
       /\ \A n \in 1..Len(benchmarks') : benchmarks'[n].args = <<>>]_vars

\* C19: a family that failed no CHECK never has both a minimum time and a
\* fixed iteration count.
C19_MinTimeExcludesIterations ==
  \A fam \in 1..Len(families_) :
    ~families_[fam].check_failed =>
      ~(families_[fam].min_time_ # 0 /\ families_[fam].iterations_ # 0)

ArityConsistent(f) ==
  /\ \A m, n \in 1..Len(f.args_) : Len(f.args_[m]) = Len(f.args_[n])
  /\ f.arg_names_ # <<>> /\ f.args_ # <<>> =>
       Len(f.arg_names_) = Len(f.args_[1])

\* The call c of arity a on a family of another arity fails a CHECK and
\* leaves the argument tuples and names alone.
RejectsOtherArity(c, a) ==
  Builder(c) /\ ArgsCnt(Built) \notin {-1, a} =>
    /\ families_'[1].check_failed
    /\ families_'[1].args_ = Built.args_
    /\ families_'[1].arg_names_ = Built.arg_names_

\* C20: after builder calls that failed no CHECK all argument tuples of the
\* family have one arity and a non-empty arg_names_ has that arity; Arg,
\* Args, Range, Ranges, ArgsProduct, DenseRange, ArgName and ArgNames with
\* another arity than the family's fail a CHECK and push nothing.
C20_ArityConsistent ==
  [][/\ \A fam \in 1..Len(families_') :
          ~families_'[fam].check_failed => ArityConsistent(families_'[fam])
     /\ \A x \in ArgValues : RejectsOtherArity([op |-> "Arg", x |-> x], 1)
     /\ \A x \in ArgsValues :
          RejectsOtherArity([op |-> "Args", x |-> x], Len(x))
     /\ \A r \in RangeValues :
          RejectsOtherArity([op |-> "Range", x |-> r[1], y |-> r[2]], 1)
     /\ \A x \in RangesValues :
          RejectsOtherArity([op |-> "Ranges", x |-> x], Len(x))
     /\ \A x \in ProductValues :
          RejectsOtherArity([op |-> "ArgsProduct", x |-> x], Len(x))
     /\ \A r \in DenseValues :
          RejectsOtherArity([op |-> "DenseRange", x |-> r[1], y |-> r[2],
                             z |-> r[3]], 1)
     /\ \A x \in NameValues :
          RejectsOtherArity([op |-> "ArgName", x |-> x], 1)
     /\ \A x \in NamesValues :
          RejectsOtherArity([op |-> "ArgNames", x |-> x], Len(x))]_vars

\* Two names and tuples of arity 2 from more than one call.
C20_Witness ==
  /\ rpc = "idle"
  /\ ~Built.check_failed
  /\ Len(Built.arg_names_) = 2
  /\ Len(Built.args_) >= 3
  /\ Built.args_[1] = <<1, 2>>


\* C21: when the filter does not compile as a regular expression, or
\* selects no instance, RunSpecifiedBenchmarks writes to the error stream
\* and returns 0 without a repetition and without a ReportContext,
\* ReportRuns or Finalize call; on a compile failure FindBenchmarks hands
\* back the output list it was given.
C21_NothingFoundReturnsZero ==
  /\ rpc \notin {"idle", "exited"} =>
       /\ ~Compiles(FilterSpec(flags)) =>
            /\ rpc = "returned"
            /\ returned = [exited |-> FALSE, value |-> 0]
            /\ Err = <<"Could not compile benchmark re">>
            /\ benchmarks = <<>> /\ runners = <<>> /\ calls = <<>>
            /\ next_repetition = 1
       /\ Compiles(FilterSpec(flags))
            /\ RunSelects(families_, flags.benchmark_filter) = {} =>
            /\ rpc = "returned"
            /\ returned = [exited |-> FALSE, value |-> 0]
            /\ Err = <<"Failed to match any benchmarks against regex">>
            /\ benchmarks = <<>> /\ runners = <<>> /\ calls = <<>>
            /\ next_repetition = 1
  /\ FindBenchmarks(<<"(">>, families_, benchmarks, <<>>).benchmarks
       = benchmarks

\* Families are registered and the filter, which compiles, selected none
\* of their instances.
C21_Witness ==
  /\ rpc = "returned"
  /\ families_ # <<>>
  /\ Compiles(FilterSpec(flags))
  /\ flags.benchmark_filter \notin MatchAll
  /\ ~flags.benchmark_list_tests
  /\ returned.value = 0
  /\ Err # <<>>


InvalidFormat(fl) ==
  fl.benchmark_format \notin Formats \/ fl.benchmark_out_format \notin Formats

\* An output file that cannot be opened, or a file reporter without an
\* output file.
InvalidOutput(fl) ==
  \/ fl.benchmark_out # <<>> /\ ~fl.file_opens
  \/ fl.benchmark_out = <<>> /\ fl.file_reporter

\* Initialize or RunSpecifiedBenchmarks has read the flags.
FlagsRead == rpc # "idle" \/ flags # DefaultFlags

\* C22: with an invalid format string, an output file that cannot be
\* opened, or a file reporter without an output file, the process exits
\* with code 1 and no benchmark is run.
C22_ConfigurationErrorsExitWithOne ==
  \/ FlagsRead /\ InvalidFormat(flags)
  \/ rpc # "idle" /\ InvalidOutput(flags)
  => /\ rpc = "exited"
     /\ returned = [exited |-> TRUE, value |-> 1]
     /\ runners = <<>>
     /\ calls = <<>>


FamilyNames(fams) == [k \in 1..Len(fams) |-> fams[k].name_]

\* C23: the three registry operations exclude one another; when no call is
\* under way families_ holds exactly the families added since the last
\* clear, in the order of the calls; AddBenchmark returns the position of
\* its family, so concurrent adds get distinct indices; FindBenchmarks
\* returns what a find on the registry as it was when the call took the
\* mutex returns, walking the families in registration order, and no
\* instance when nothing was added since the last clear.
C23_RegistrySerialized ==
  [][/\ \A c, d \in Callers :
          c # d => caller[c].pc = "idle" \/ caller[d].pc = "idle"
     /\ mutex_ = NoOwner => FamilyNames(families_) = FamilyNames(registered)
     /\ \A c \in Callers :
          AddBenchmarkReturn(c) =>
            /\ caller[c].index = caller[c].ticket
            /\ families_[caller[c].index + 1].name_ = caller[c].family.name_
     /\ \A c \in Callers :
          FindBenchmarksReturn(c) =>
            LET found == FindBenchmarks(caller[c].spec, caller[c].seen,
                                        <<>>, <<>>)
                bs == caller[c].acc.benchmarks
            IN  /\ bs = found.benchmarks
                /\ families_ = found.families
                /\ \A m, n \in 1..Len(bs) :
                     m <= n => bs[m].family <= bs[n].family
                /\ registered = <<>> => bs = <<>>]_vars

\* A find has walked two families that two different callers' adds put
\* there, and holds the instances of both.
C23_Witness ==
  /\ Len(families_) = 2
  /\ families_[1].name_ = <<"b">>
  /\ families_[2].name_ = <<"a">>
  /\ \E c \in Callers :
       /\ caller[c].pc = "find"
       /\ caller[c].fam = 3
       /\ Len(caller[c].acc.benchmarks) = 3
       /\ mutex_ = c


\* What a run under the filter hands to RunBenchmarks or lists.
FoundUnder(filter) ==
  FindBenchmarks(FilterSpec([DefaultFlags EXCEPT !.benchmark_filter = filter]),
                 families_, <<>>, <<>>).benchmarks

\* C24: the empty filter and the filter "all" select the same instances,
\* with the same family and per-family indices, as the filter ".": every
\* instance of every registered family.
C24_EmptyAndAllAreDot ==
  LET dot == FoundUnder(<<".">>)
  IN  /\ FoundUnder(<<>>) = dot
      /\ FoundUnder(AllFilter) = dot
      /\ Len(dot) = Cardinality(Expanded(families_))
      /\ rpc \notin {"idle", "exited"} /\ flags.benchmark_filter \in MatchAll =>
           /\ benchmarks = dot
           /\ \A e \in Expanded(families_) :
                \E n \in 1..Len(benchmarks) : InstanceKey(benchmarks[n]) = e

\* A run under "all" has found the three instances of two families, none
\* of which has "all" in its name.
C24_Witness ==
  /\ rpc \notin {"idle", "exited"}
  /\ flags.benchmark_filter = AllFilter
  /\ Len(families_) = 2
  /\ Len(benchmarks) = 3
  /\ benchmarks[3].family_index = 1


ReportRunsOf(reporter, i, what) ==
  Cardinality({n \in 1..Len(calls) :
                 /\ calls[n].op = "ReportRuns"
                 /\ calls[n].reporter = reporter
                 /\ calls[n].runner = i
                 /\ calls[n].what = what})

\* The number of aggregates in the RunResults that Report was given for
\* instance i.
AggregatesOf(i) ==
  LET n == CHOOSE n \in 1..Len(calls) :
             calls[n].op = "Report" /\ calls[n].runner = i
  IN  calls[n].size

AggregatesOnlyFlag(reporter, i) ==
  IF reporter = "display"
  THEN runners[i].display_report_aggregates_only
  ELSE runners[i].file_report_aggregates_only

\* C26: of the RunResults of a reported instance, a reporter is given
\* non_aggregates unless its own aggregates-only flag is set and there are
\* aggregates, and aggregates_only whenever there are aggregates; so the
\* per-repetition Runs of an instance without aggregates reach every
\* reporter, and the display and the file reporter are decided each by its
\* own flag.  Without a file reporter nothing is reported to one.
C26_ReportPassesRuns ==
  RunnersBuilt =>
    \A i \in 1..Len(runners) :
      /\ ReportsOf(i) = 1 =>
           \A reporter \in {"display"} \cup
                            (IF HasFileReporter(flags) THEN {"file"} ELSE {}) :
             /\ ReportRunsOf(reporter, i, "non_aggregates")
                  = IF AggregatesOnlyFlag(reporter, i) /\ AggregatesOf(i) > 0
                    THEN 0 ELSE 1
             /\ ReportRunsOf(reporter, i, "aggregates_only")
                  = IF AggregatesOf(i) > 0 THEN 1 ELSE 0
      /\ ~HasFileReporter(flags) =>
           /\ ReportRunsOf("file", i, "non_aggregates") = 0
           /\ ReportRunsOf("file", i, "aggregates_only") = 0

\* The display reporter's flag is set and the file reporter's is not: an
\* instance without aggregates went to both with its Runs, an instance with
\* aggregates went to the file reporter with its Runs and to the display
\* reporter without them.
C26_Witness ==
  /\ rpc = "returned"
  /\ HasFileReporter(flags)
  /\ \E i, j \in 1..Len(runners) :
       /\ AggregatesOnlyFlag("display", i) /\ ~AggregatesOnlyFlag("file", i)
       /\ AggregatesOnlyFlag("display", j) /\ ~AggregatesOnlyFlag("file", j)
       /\ AggregatesOf(i) = 0
       /\ ReportRunsOf("display", i, "non_aggregates") = 1
       /\ AggregatesOf(j) > 0
       /\ ReportRunsOf("display", j, "non_aggregates") = 0
       /\ ReportRunsOf("file", j, "non_aggregates") = 1


CallsOf(reporter, op) ==
  Cardinality({n \in 1..Len(calls) :
                 calls[n].op = op /\ calls[n].reporter = reporter})

NoRunReported ==
  \A n \in 1..Len(calls) : calls[n].op \notin {"Report", "ReportRuns"}

\* Finalize was called once on the display reporter and then once on the
\* file reporter, if there is one, and these are the last calls.
FinalizedLast ==
  LET last == Len(calls)
  IN  /\ CallsOf("display", "Finalize") = 1
      /\ CallsOf("file", "Finalize") = IF HasFileReporter(flags) THEN 1 ELSE 0
      /\ IF HasFileReporter(flags)
         THEN /\ calls[last] = ReporterCall("file", "Finalize")
              /\ calls[last - 1] = ReporterCall("display", "Finalize")
         ELSE calls[last] = ReporterCall("display", "Finalize")

RunBenchmarksEntered == rpc \in {"context", "loop", "finalize"}

RunBenchmarksLeft == rpc = "returned" /\ calls # <<>>

\* C27: when ReportContext of the display reporter, or of the file reporter
\* if there is one, returns false, RunBenchmarks builds no Runner, runs no
\* repetition and makes no ReportRuns call; whether or not that happened,
\* Finalize is called once on the display reporter and once on the file
\* reporter if there is one, after every ReportRuns call.
C27_ContextFailureSkipsRuns ==
  [][/\ \A display_ok, file_ok \in BOOLEAN :
          /\ RunBenchmarksStart(display_ok, file_ok)
          /\ ~display_ok \/ (HasFileReporter(flags) /\ ~file_ok)
          => rpc' = "finalize" /\ runners' = <<>> /\ NoRunReported'
     /\ rpc = "finalize" =>
          /\ runners = <<>> /\ next_repetition = 1 /\ NoRunReported
          /\ rpc' = "returned" /\ runners' = <<>> /\ NoRunReported'
     /\ RunBenchmarksEntered =>
          CallsOf("display", "Finalize") = 0 /\ CallsOf("file", "Finalize") = 0
     /\ RunBenchmarksLeft' => FinalizedLast']_vars

\* The display reporter took the context and the file reporter refused it:
\* both were finalized and nothing ran.
C27_Witness ==
  /\ rpc = "returned"
  /\ HasFileReporter(flags)
  /\ CallsOf("display", "ReportContext") = 1
  /\ CallsOf("file", "ReportContext") = 1
  /\ runners = <<>>
  /\ Len(calls) = 4


DenseCall(r) == [op |-> "DenseRange", x |-> r[1], y |-> r[2], z |-> r[3]]

\* seq is start, start + step, start + 2*step, ... as far as limit, rising.
IsProgression(seq, start, limit, step) ==
  /\ seq # <<>>
  /\ seq[1] = start
  /\ \A k \in 1..Len(seq) : seq[k] <= limit
  /\ \A k \in 1..(Len(seq) - 1) : seq[k + 1] = seq[k] + step /\ seq[k] < seq[k + 1]
  /\ seq[Len(seq)] + step > limit

DenseRangeEmits(r) ==
  Builder(DenseCall(r)) /\ ArgsCnt(Built) \in {-1, 1} /\ r[1] <= r[2] =>
    /\ rpc' = "idle"
    /\ ~families_'[1].check_failed
    /\ \A n \in 1..Len(Pushed) : Len(Pushed[n]) = 1
    /\ IsProgression([n \in 1..Len(Pushed) |-> Pushed[n][1]],
                     r[1], r[2], r[3])

CreateDenseRangeEmits(r) ==
  r[1] <= r[2] =>
    /\ CreateDenseRange(r[1], r[2], r[3]).ends = "returns"
    /\ IsProgression(CreateDenseRange(r[1], r[2], r[3]).args, r[1], r[2], r[3])

DenseRangeRejects(r) ==
  /\ Builder(DenseCall(r)) /\ r[1] > r[2] =>
       /\ rpc' = "idle"
       /\ families_'[1].check_failed
       /\ families_'[1].args_ = Built.args_
  /\ r[1] > r[2] =>
       CreateDenseRange(r[1], r[2], r[3]) =
         [args |-> <<>>, ends |-> "check_failed"]

\* The steps for which the loop counts up to limit inside int64_t.
CountsUp(r) == r[3] >= 1 /\ r[2] + r[3] <= Int64Max

C28_Hangs == rpc = "hung"


AtBarrier(t) == pc[t] \in {"start_wait", "stop_wait"}

TimerStopped(t) == AtBarrier(t) \/ state[t].finished_ => ~state[t].running

\* The timer of worker t goes from stopped to running in this step.
TimerStarts(t) == ~state[t].running /\ state'[t].running

\* C29: in a run that fails no CHECK the timer of a worker is not running
\* while the worker is at StartStopBarrier or once its finished_ is true;
\* it starts only in a worker that has left the start barrier, and a worker
\* enters a barrier with its timer stopped.
C29_BarrierWaitIsNotTimed ==
  [][~Aborted' =>
       \A t \in Workers :
         /\ TimerStopped(t)
         /\ TimerStopped(t)'
         /\ TimerStarts(t) =>
              /\ barrierCalls[t] >= 1
              /\ \/ pc[t] = "start_wait" /\ Released(t)
                 \/ pc[t] = "body" /\ state[t].started_
              /\ pc'[t] = "body"
         /\ ~AtBarrier(t) /\ AtBarrier(t)' => ~state[t].running']_vars

\* A worker that took an iteration waits at the stop barrier while the timer
\* of another worker is running.
C29_Witness ==
  /\ ~Aborted
  /\ \E t, u \in Workers :
       /\ pc[t] = "stop_wait"
       /\ ~Released(t)
       /\ trueCount[t] >= 1
       /\ ~state[t].running
       /\ state[u].running


\* A second FindBenchmarks call with the filter of the first, on the
\* registry as the first call left it and with the first call's output list.
FoundAgain == FindBenchmarks(FilterSpec(flags), families_, benchmarks, <<>>)

SameInstance(a, b) ==
  /\ a.name = b.name
  /\ a.family_index = b.family_index
  /\ a.per_family_instance_index = b.per_family_instance_index

\* C30: after RunSpecifiedBenchmarks has searched the registry, which
\* pushed an empty tuple onto each family of unset arity, a second
\* FindBenchmarks call with the same filter leaves the registry as it is
\* and appends to the output list the instances of the first call again:
\* the same names, family_index and per_family_instance_index in the same
\* order.
C30_FindBenchmarksRepeatable ==
  Searched =>
    LET again == FoundAgain
    IN  /\ again.ok
        /\ again.families = families_
        /\ Len(again.benchmarks) = 2 * Len(benchmarks)
        /\ \A n \in 1..Len(benchmarks) :
             /\ again.benchmarks[n] = benchmarks[n]
             /\ SameInstance(again.benchmarks[Len(benchmarks) + n],
                             benchmarks[n])

\* The first call found instances of two families, one of which has the
\* empty tuple as its only argument tuple.
C30_Witness ==
  /\ Searched
  /\ Len(families_) = 2
  /\ \E m, n \in 1..Len(benchmarks) :
       /\ benchmarks[m].family_index # benchmarks[n].family_index
       /\ benchmarks[m].args = <<>>
       /\ benchmarks[n].args # <<>>

=============================================================================
